---- MODULE Spec2Model ----
(***************************************************************************)
(* Streaming generation session of core/src/engine.cpp: ev_stream_next,   *)
(* ev_stream_cancel and ev_stream_get_token_info on one ev_stream_impl.    *)
(* ev_stream_next is split at the points where another thread's            *)
(* ev_stream_cancel (an atomic store, no mutex) can be observed: the two   *)
(* checkpoints, each llama_decode call (start and completion) and the      *)
(* sampling call.  The engine (llama.cpp) is external: each of its results *)
(* (decode status, sampled token, logits) is a nondeterministic input.     *)
(* Confidences and the threshold are fixed-point numbers k/CScale.  The    *)
(* locals i and new_token of ev_stream_next hold a default value outside   *)
(* their scope.                                                            *)
(*                                                                         *)
(* Three further specifications share the module.  StartSpec is            *)
(* ev_generate_stream as a function of its inputs.  CtxSpec is one         *)
(* ev_context used by two sessions and a thread of blocking API calls,     *)
(* with ctx->mutex and the engine operations as steps that take time.      *)
(* GuardSpec is core/src/memory_guard.cpp: the guard state, its monitor    *)
(* thread and one calling thread.  Each specification holds the variables  *)
(* of the others at rest.                                                  *)
(***************************************************************************)
EXTENDS Integers, Naturals, Sequences, FiniteSets, TLC

\* ---------------------------------------------------------------- bounds
MaxTokensBound == 4
MaxPrompt == 2
NBatch == 1
CScale == 2
NCtx == 5
MaxGen == 2
MaxUsage == 2
MaxLimit == 2
TScale == 2
MaxRef == 3
MaxVocab == 4

\* calls of ev_stream_next explored: one past the largest max_tokens
MaxCalls == MaxTokensBound + 1
MaxMeasured == MaxGen + 2

\* ------------------------------------------------- program constants
EV_SUCCESS == 0
EV_ERROR_INVALID_PARAM == -1
EV_ERROR_OUT_OF_MEMORY == -2
EV_ERROR_INFERENCE_FAILED == -5
EV_ERROR_CONTEXT_INVALID == -6
EV_ERROR_STREAM_ENDED == -7
NotComputed == -1
HandoffMinCount == 3
SafetyMargin == 4
DefaultInterval == 1000
MinInterval == 100
MaxInterval == 60000
ConfUnit == 1000

TokenKinds == {"eos", "empty", "text"}

\* confidences the engine's logits can give: 0 for uniform logits, CScale
\* (that is 1.0) for a one-hot spike, and one value in between
ConfidenceValues == {0, CScale \div 2, CScale}

VARIABLES
    max_tokens, confidence_threshold, n_prompt, n_batch,
    ended, cancelled, n_cur, prompt_evaluated,
    last_confidence, confidence_sum, confidence_count, needs_handoff,
    pc, i, new_token,
    ret,
    calls, fragments, firstNone, endCause, endStatus, engineOps,
    decAfterCancel, chunksLeftAtCancel, cancelBeforeFirst,
    decodeFailed, fragAfterFail, allocFailed, eosSampled,
    histSum, histCount, lowMeanSeen, hasNextFalse,
    ctx_mutex, ctx, sess, tpc, api_op, api_i, failSeen,
    startIn, lastStart,
    memory_limit, current_usage, peak_usage, pressure_callback,
    monitoring_active, pressure_threshold, g_mutex,
    mpc, m_current, m_peak, m_limit, cpc,
    polled, cb_args, threadOverwritten,
    callback_user_data, c_user_data, cb_called,
    threshold_nan, check_interval, set_arg, q_while_locked,
    ctx_live, ctx_limit,
    g_backend_mutex, g_backend_refcount, bpc, backend_up, misordered,
    n_vocab, n_top, conf_last, conf_sum, conf_count,
    gen_params, sampler,
    kv_cache, cache_prompt, sampled,
    rpc, rop, handle, temp,
    ucb, udata, u_arg, w_cb, u_called,
    deref,
    peak_memory_bytes, stats, earlier_peak,
    obj, obj_mutex, fpc, late_access

paramVars == <<max_tokens, confidence_threshold, n_prompt, n_batch>>
confVars == <<last_confidence, confidence_sum, confidence_count, needs_handoff,
              histSum, histCount, lowMeanSeen>>
cancelVars == <<cancelled, chunksLeftAtCancel, cancelBeforeFirst>>
failVars == <<decodeFailed, fragAfterFail, allocFailed, eosSampled>>
retVars == <<ret, fragments, firstNone>>

streamVars == <<max_tokens, confidence_threshold, n_prompt, n_batch,
                ended, cancelled, n_cur, prompt_evaluated,
                last_confidence, confidence_sum, confidence_count, needs_handoff,
                pc, i, new_token, ret,
                calls, fragments, firstNone, endCause, endStatus, engineOps,
                decAfterCancel, chunksLeftAtCancel, cancelBeforeFirst,
                decodeFailed, fragAfterFail, allocFailed, eosSampled,
                histSum, histCount, lowMeanSeen, hasNextFalse>>

\* the shared ev_context and its callers
ctxVars == <<ctx_mutex, ctx, sess, tpc, api_op, api_i, failSeen>>

\* one ev_generate_stream call: its inputs and what it returned
startVars == <<startIn, lastStart>>

\* what no step of ev_stream_next or ev_stream_cancel touches
\* g_memory_guard, the monitor thread and the guard's caller
\* callback_user_data, the user_data argument of a memory_guard_set_callback
\* call in progress, and the (callback, user_data) pair the monitor called
cbVars == <<callback_user_data, c_user_data, cb_called>>

\* whether the stored pressure_threshold is a NaN, the stored check_interval
\* in ms, and the argument of the latest memory_guard_set_threshold or
\* memory_guard_set_check_interval call
tuneVars == <<threshold_nan, check_interval, set_arg>>

\* whether a query of the guard has returned while the guard mutex was held
queryVars == <<q_while_locked>>

guardVars == <<memory_limit, current_usage, peak_usage, pressure_callback,
               monitoring_active, pressure_threshold, g_mutex,
               mpc, m_current, m_peak, m_limit, cpc,
               polled, cb_args, threadOverwritten, cbVars, tuneVars,
               queryVars>>

\* the ev_context objects of the process that share g_memory_guard: which
\* of them exist and the memory_limit field of each
limitVars == <<ctx_live, ctx_limit>>

\* the state outside one stream, one context and the guard
\* backend_lifecycle.cpp: the mutex, the count, each caller's position, and
\* the llama backend
backendVars == <<g_backend_mutex, g_backend_refcount, bpc, backend_up,
                 misordered>>

\* the confidence arithmetic: vocabulary size, shape of the latest logit
\* vector, last_confidence, confidence_sum and confidence_count
scoreVars == <<n_vocab, n_top, conf_last, conf_sum, conf_count>>

\* the generation parameters create_sampler was called with and the chain
\* it built
samplerVars == <<gen_params, sampler>>

\* the engine's sequence cache of one ev_context, the prompt length of each
\* session on it, and what the latest llama_sampler_sample call found
cacheVars == <<kv_cache, cache_prompt, sampled>>

\* several threads calling the guard at once: each caller's position and
\* call, the thread the handle g_memory_guard.monitor_thread refers to, and
\* the std::thread each caller has constructed and not yet assigned
raceVars == <<rpc, rop, handle, temp>>

\* ctx->memory_callback and ctx->memory_callback_data, the arguments of the
\* ev_set_memory_pressure_callback call in progress, the callback the
\* wrapper has loaded, and the pair the user's callback was called with
pairVars == <<ucb, udata, u_arg, w_cb, u_called>>

\* the context the wrapper last dereferenced, and whether it existed then
derefVars == <<deref>>

\* ctx->peak_memory_bytes, the ev_memory_stats of the latest
\* ev_get_memory_usage call, and the largest peak_bytes of the calls before
usageVars == <<peak_memory_bytes, stats, earlier_peak>>

\* the context objects of the three engines: whether each exists, its
\* mutex, the position of the thread freeing it, and whether the object
\* was accessed after its destruction
freeVars == <<obj, obj_mutex, fpc, late_access>>

lateVars == <<cacheVars, raceVars, pairVars, derefVars, usageVars, freeVars>>

\* the groups above without one of them
notCacheVars ==
    <<limitVars, backendVars,
      scoreVars, samplerVars, raceVars, pairVars, derefVars, usageVars, freeVars>>

notRaceVars ==
    <<limitVars, backendVars,
      scoreVars, samplerVars, cacheVars, pairVars, derefVars, usageVars, freeVars>>

notPairVars ==
    <<limitVars, backendVars,
      scoreVars, samplerVars, cacheVars, raceVars, derefVars, usageVars, freeVars>>

notDerefVars ==
    <<limitVars, backendVars,
      scoreVars, samplerVars, cacheVars, raceVars, pairVars, usageVars, freeVars>>

notUsageVars ==
    <<limitVars, backendVars,
      scoreVars, samplerVars, cacheVars, raceVars, pairVars, derefVars, freeVars>>

notFreeVars ==
    <<limitVars, backendVars,
      scoreVars, samplerVars, cacheVars, raceVars, pairVars, derefVars, usageVars>>

auxVars == <<limitVars, backendVars, scoreVars, samplerVars, lateVars>>

frameVars == <<hasNextFalse, ctxVars, startVars, guardVars, auxVars>>

vars == <<streamVars, ctxVars, startVars, guardVars, auxVars>>

\* ------------------------------------------------------------ helpers
Max(a, b) == IF a >= b THEN a ELSE b

\* ceil(n / b) for n >= 0, b >= 1
CeilDiv(n, b) == (n + b - 1) \div b

\* ev_stream_impl::check_cancelled: acquire-load of the atomic flag
check_cancelled == cancelled

\* first checkpoint of ev_stream_next, before any work
EntryCheckpointSkipped == FALSE

EntryCheckpoint == check_cancelled

\* second checkpoint of ev_stream_next, immediately before sampling
SecondCheckpointSkipped == FALSE

SecondCheckpoint == check_cancelled

\* generated_count >= max_tokens
MaxTokensReachedOffByOne == (n_cur - n_prompt) > max_tokens

MaxTokensReached == (n_cur - n_prompt) >= max_tokens

\* status reported with the none of the max_tokens limit
MaxTokensStatusAsEnded == EV_ERROR_STREAM_ENDED

MaxTokensStatus == EV_SUCCESS

\* confidence is computed only when the threshold is > 0
ConfidenceEnabledAtZero == confidence_threshold >= 0

ConfidenceEnabled == confidence_threshold > 0

\* avg < threshold && count >= 3, with avg = sum / count
HandoffConditionTwo(sum, count) ==
    sum < confidence_threshold * count /\ count >= 2

HandoffCondition(sum, count) ==
    sum < confidence_threshold * count /\ count >= HandoffMinCount

\* if (cond) needs_handoff = true;   (never cleared)
HandoffNotSticky(old, sum, count) == HandoffCondition(sum, count)

HandoffUpdate(old, sum, count) == old \/ HandoffCondition(sum, count)

\* ev_stream_get_token_info: the four reported fields.  It only reads the
\* session, under stream->mutex, so it observes the states between two
\* ev_stream_next calls (pc = "idle")
TokenInfo ==
    [confidence |-> last_confidence,
     avg_confidence |-> IF confidence_count > 0
                        THEN confidence_sum \div confidence_count
                        ELSE NotComputed,
     needs_cloud_handoff |-> needs_handoff,
     token_index |-> confidence_count]

NoRet == [tok |-> "nocall", err |-> EV_SUCCESS]

\* number of prompt chunks of the whole prompt
NChunks == CeilDiv(n_prompt, n_batch)

\* prompt chunk decodes that the in-flight prompt evaluation has yet to start
ChunksToStart ==
    IF pc = "prompt" /\ ~prompt_evaluated THEN NChunks
    ELSE IF pc = "chunk" THEN CeilDiv(n_prompt - i, n_batch)
    ELSE IF pc = "chunkrun" THEN CeilDiv(Max(n_prompt - i - n_batch, 0), n_batch)
    ELSE 0

\* ------------------------------------------------ the shared context
\* two streaming sessions, each driven by its own thread, and one thread
\* that calls the blocking API of the same ev_context
Sessions == {"s1", "s2"}
ApiThread == "api"
Threads == Sessions \cup {ApiThread}

ApiOps == {"generate", "reset", "cleanup", "set_limit", "set_callback"}

\* ev_stream_impl as far as the context level needs it; live is FALSE
\* before ev_generate_stream and after ev_stream_free
NoSession ==
    [live |-> FALSE, ended |-> FALSE, prompt_evaluated |-> FALSE,
     gen |-> 0, afterFail |-> FALSE]

NoStart == [cause |-> "nocall", status |-> EV_SUCCESS, returned |-> FALSE]

NoInput == [promptNull |-> TRUE, ntok |-> 0, allocOk |-> TRUE, samplerOk |-> TRUE,
            n_ctx |-> 1]

\* the context as ev_init returns it, nobody calling
CtxAtRest ==
    /\ ctx_mutex = "free"
    /\ ctx = [model_loaded |-> TRUE, memory_limit |-> 0,
              memory_callback |-> "none", last_error |-> ""]
    /\ sess = [s \in Sessions |-> NoSession]
    /\ tpc = [t \in Threads |-> "idle"]
    /\ api_op = "none"
    /\ api_i = 0
    /\ failSeen = FALSE

\* no ev_generate_stream call observed
StartAtRest ==
    /\ startIn = NoInput
    /\ lastStart = NoStart

\* ===================================================================
\* The memory guard of core/src/memory_guard.cpp: the process-wide state
\* g_memory_guard, the monitor thread (memory_monitor_loop) and one thread
\* that calls the guard's functions one after the other.  The monitor is
\* split at its atomic loads and stores and at its lock of the guard mutex;
\* get_platform_memory_usage is external and gives any sample 0..MaxUsage
\* (0 is what it returns when the platform query fails).  The threshold is
\* the fixed-point number pressure_threshold / TScale.
\* ===================================================================
Samples == 0..MaxUsage

\* usage_ratio >= pressure_threshold, with usage_ratio = current / limit
RatioAtThreshold(current, limit) ==
    ~threshold_nan /\ current * TScale >= pressure_threshold * limit

\* memory_monitor_loop: limit > 0 && current > 0 && ratio >= threshold
MonitorPressure(current, limit) ==
    limit > 0 /\ current > 0 /\ RatioAtThreshold(current, limit)

\* memory_guard_is_under_pressure on given values: limit != 0 and
\* ratio >= threshold
PressurePredicate(current, limit) ==
    limit # 0 /\ RatioAtThreshold(current, limit)

is_under_pressure == PressurePredicate(current_usage, memory_limit)

\* memory_guard_get_current_usage; probe is what get_platform_memory_usage
\* would return during the call
get_current_usage(probe) ==
    IF ~monitoring_active THEN probe ELSE current_usage

\* memory_guard_get_peak_usage
get_peak_usage(probe) == peak_usage

\* a monitor thread exists and has not left its loop
MonitorRunning == mpc \notin {"none", "exited"}

\* monitor_thread.joinable()
NeverJoinable == FALSE

Joinable == mpc # "none"

\* start_monitoring: nothing to do if monitoring_active
StartGuardMissing == FALSE

StartGuard == monitoring_active

MonitorLocalsAtRest ==
    /\ m_current = 0
    /\ m_peak = 0
    /\ m_limit = 0

\* the pairs memory_guard_set_callback is called with: callback nullptr with
\* any user_data, or one of two functions, each with its own user_data
CallbackArgs == {<<"none", "null">>, <<"fn1", "d1">>, <<"fn2", "d2">>}

\* a float: a NaN, or the number v in the unit of its use; an ordered
\* comparison with a NaN is false
Float(v) == [nan |-> FALSE, v |-> v]

NaN == [nan |-> TRUE, v |-> 0]

\* a < b on floats
FloatLess(a, b) == ~a.nan /\ ~b.nan /\ a.v < b.v

\* the -1.0f that last_confidence starts with and that avg_confidence
\* reports for count 0
Sentinel == Float(-ConfUnit)

\* no confidence computed
ConfAtRest ==
    /\ n_vocab = 1
    /\ n_top = 0
    /\ conf_last = Sentinel
    /\ conf_sum = Float(0)
    /\ conf_count = 0

\* create_sampler not called
SamplerAtRest ==
    /\ gen_params = [top_k |-> 0, top_p |-> Float(0), temperature |-> Float(0),
                     grammar_str |-> "null"]
    /\ sampler = <<>>

Contexts == {"c1", "c2"}

\* no ev_context exists besides the one of the other groups
LimitAtRest ==
    /\ ctx_live = [c \in Contexts |-> FALSE]
    /\ ctx_limit = [c \in Contexts |-> 0]

BackendThreads == {"t1", "t2", "t3"}

BackendAtRest ==
    /\ g_backend_mutex = "free"
    /\ g_backend_refcount = 0
    /\ bpc = [t \in BackendThreads |-> "idle"]
    /\ backend_up = FALSE
    /\ misordered = FALSE

\* an empty sequence cache, nothing sampled
CacheAtRest ==
    /\ kv_cache = <<>>
    /\ cache_prompt = [s \in Sessions |-> 1]
    /\ sampled = <<>>

Callers == {"a", "b"}

\* no caller inside the guard, no monitor thread
RaceAtRest ==
    /\ rpc = [c \in Callers |-> "idle"]
    /\ rop = [c \in Callers |-> "none"]
    /\ handle = "none"
    /\ temp = [c \in Callers |-> "none"]

\* no callback registered on the context
PairAtRest ==
    /\ ucb = "none"
    /\ udata = "null"
    /\ u_arg = <<>>
    /\ w_cb = "none"
    /\ u_called = <<>>

DerefAtRest == deref = <<>>

\* peak_memory_bytes(0) of the constructor, no call yet
UsageAtRest ==
    /\ peak_memory_bytes = 0
    /\ stats = <<>>
    /\ earlier_peak = 0

\* ev_context, ev_image_context and ev_whisper_context
Kinds == {"text", "image", "whisper"}

\* no context object created
FreeAtRest ==
    /\ obj = [k \in Kinds |-> "none"]
    /\ obj_mutex = [k \in Kinds |-> "free"]
    /\ fpc = [k \in Kinds |-> "idle"]
    /\ late_access = [k \in Kinds |-> FALSE]

LateAtRest ==
    /\ CacheAtRest
    /\ RaceAtRest
    /\ PairAtRest
    /\ DerefAtRest
    /\ UsageAtRest
    /\ FreeAtRest

AuxAtRest ==
    LimitAtRest /\ BackendAtRest /\ ConfAtRest /\ SamplerAtRest /\ LateAtRest

\* check_interval{1000} and a threshold that is a number
TuneAtRest ==
    /\ threshold_nan = FALSE
    /\ check_interval = DefaultInterval
    /\ set_arg = <<>>

\* no callback registered, no memory_guard_set_callback in progress
CallbackDataAtRest ==
    /\ callback_user_data = "null"
    /\ c_user_data = "null"
    /\ cb_called = <<>>

\* the guard as the static initializer leaves it, no thread inside
GuardAtRest ==
    /\ memory_limit = 0
    /\ current_usage = 0
    /\ peak_usage = 0
    /\ pressure_callback = "none"
    /\ monitoring_active = FALSE
    /\ pressure_threshold = TScale
    /\ g_mutex = "free"
    /\ mpc = "none"
    /\ MonitorLocalsAtRest
    /\ cpc = "idle"
    /\ polled = <<>>
    /\ cb_args = <<>>
    /\ threadOverwritten = FALSE
    /\ CallbackDataAtRest
    /\ TuneAtRest
    /\ q_while_locked = FALSE


\* ------------------------------------------------------------- Init
\* the session as ev_generate_stream returns it
StreamCreated ==
    /\ hasNextFalse = FALSE
    /\ ended = FALSE
    /\ cancelled = FALSE
    /\ n_cur = 0
    /\ prompt_evaluated = FALSE
    /\ last_confidence = NotComputed
    /\ confidence_sum = 0
    /\ confidence_count = 0
    /\ needs_handoff = FALSE
    /\ pc = "idle"
    /\ i = 0
    /\ new_token = "text"
    /\ ret = NoRet
    /\ calls = 0
    /\ fragments = 0
    /\ firstNone = <<>>
    /\ endCause = "none"
    /\ endStatus = <<>>
    /\ engineOps = 0
    /\ decAfterCancel = 0
    /\ chunksLeftAtCancel = 0
    /\ cancelBeforeFirst = FALSE
    /\ decodeFailed = FALSE
    /\ fragAfterFail = FALSE
    /\ allocFailed = FALSE
    /\ eosSampled = FALSE
    /\ histSum = 0
    /\ histCount = 0
    /\ lowMeanSeen = FALSE

Init ==
    /\ CtxAtRest
    /\ StartAtRest
    /\ AuxAtRest
    /\ GuardAtRest
    /\ max_tokens \in 0..MaxTokensBound
    /\ confidence_threshold \in 0..CScale
    /\ n_prompt \in 1..MaxPrompt
    /\ n_batch = NBatch
    /\ StreamCreated

\* one session, not used: the state of the session variables in the
\* specifications that are about the context
StreamAtRest ==
    /\ max_tokens = 0
    /\ confidence_threshold = 0
    /\ n_prompt = 1
    /\ n_batch = NBatch
    /\ StreamCreated

\* record of the measurements, kept beside the session's own fields: the
\* sum and number of the confidences measured so far, and whether at some
\* measurement number k >= 3 the mean of the first k was below the threshold
Measure(c) ==
    /\ histSum' = histSum + c
    /\ histCount' = histCount + 1
    /\ lowMeanSeen' = (lowMeanSeen \/ (histCount + 1 >= 3 /\
                          histSum + c < confidence_threshold * (histCount + 1)))

\* a return of ev_stream_next: the token (or none) and *error;
\* firstNone keeps the status of the first none of the session
Return(tok, err) ==
    /\ ret' = [tok |-> tok, err |-> err]
    /\ pc' = "idle"
    /\ fragments' = IF tok = "none" THEN fragments ELSE fragments + 1
    /\ firstNone' = IF tok = "none" /\ firstNone = <<>> THEN <<err>> ELSE firstNone

\* stream->ended = true; return nullptr with *error = err.  endCause and
\* endStatus keep the branch that first ended the session and its status
End(cause, err) ==
    /\ ended' = TRUE
    /\ endCause' = IF endCause = "none" THEN cause ELSE endCause
    /\ endStatus' = IF endCause = "none" THEN <<err>> ELSE endStatus
    /\ Return("none", err)

\* ------------------------------------------------------ ev_stream_next
NextCall ==
    /\ pc = "idle"
    /\ calls < MaxCalls
    /\ pc' = "entry"
    /\ calls' = calls + 1
    /\ UNCHANGED <<frameVars, paramVars, confVars, cancelVars, failVars, retVars,
                   ended, n_cur, prompt_evaluated, i, new_token,
                   endCause, endStatus, engineOps, decAfterCancel>>

EntryCheck ==
    /\ pc = "entry"
    /\ IF EntryCheckpoint
       THEN End("cancelled", EV_ERROR_STREAM_ENDED)
       ELSE IF ended
       THEN Return("none", EV_ERROR_STREAM_ENDED) /\ UNCHANGED <<ended, endCause, endStatus>>
       ELSE pc' = "prompt" /\ UNCHANGED <<retVars, ended, endCause, endStatus>>
    /\ UNCHANGED <<frameVars, paramVars, confVars, cancelVars, failVars,
                   n_cur, prompt_evaluated, i, new_token,
                   calls, engineOps, decAfterCancel>>

PromptBegin ==
    /\ pc = "prompt"
    /\ IF ~prompt_evaluated
       THEN /\ engineOps' = engineOps + 1
            /\ i' = 0
            /\ pc' = "chunk"
       ELSE /\ pc' = "maxcheck"
            /\ UNCHANGED <<engineOps, i>>
    /\ UNCHANGED <<frameVars, paramVars, confVars, cancelVars, failVars, retVars,
                   ended, n_cur, prompt_evaluated, new_token,
                   calls, endCause, endStatus, decAfterCancel>>

ChunkStart ==
    /\ pc = "chunk"
    /\ i < n_prompt
    /\ engineOps' = engineOps + 1
    /\ decAfterCancel' = IF cancelled THEN decAfterCancel + 1 ELSE decAfterCancel
    /\ pc' = "chunkrun"
    /\ UNCHANGED <<frameVars, paramVars, confVars, cancelVars, failVars, retVars,
                   ended, n_cur, prompt_evaluated, i, new_token,
                   calls, endCause, endStatus>>

ChunkEnd ==
    /\ pc = "chunkrun"
    /\ \E ok \in BOOLEAN :
         IF ~ok
         THEN /\ End("error", EV_ERROR_INFERENCE_FAILED)
              /\ decodeFailed' = TRUE
              /\ UNCHANGED fragAfterFail
              /\ i' = 0
              /\ UNCHANGED <<n_cur, prompt_evaluated>>
         ELSE /\ IF i + n_batch < n_prompt
                 THEN /\ i' = i + n_batch
                      /\ pc' = "chunk"
                      /\ UNCHANGED <<n_cur, prompt_evaluated>>
                 ELSE /\ i' = 0
                      /\ n_cur' = n_prompt
                      /\ prompt_evaluated' = TRUE
                      /\ pc' = "maxcheck"
              /\ UNCHANGED <<retVars, ended, endCause, endStatus, decodeFailed, fragAfterFail>>
    /\ UNCHANGED <<frameVars, paramVars, confVars, cancelVars, allocFailed, eosSampled,
                   new_token, calls, engineOps, decAfterCancel>>

MaxCheck ==
    /\ pc = "maxcheck"
    /\ IF MaxTokensReached
       THEN End("natural", MaxTokensStatus)
       ELSE pc' = "check2" /\ UNCHANGED <<retVars, ended, endCause, endStatus>>
    /\ UNCHANGED <<frameVars, paramVars, confVars, cancelVars, failVars,
                   n_cur, prompt_evaluated, i, new_token,
                   calls, engineOps, decAfterCancel>>

Check2 ==
    /\ pc = "check2"
    /\ IF SecondCheckpoint
       THEN End("cancelled", EV_ERROR_STREAM_ENDED)
       ELSE pc' = "sample" /\ UNCHANGED <<retVars, ended, endCause, endStatus>>
    /\ UNCHANGED <<frameVars, paramVars, confVars, cancelVars, failVars,
                   n_cur, prompt_evaluated, i, new_token,
                   calls, engineOps, decAfterCancel>>

\* llama_sampler_sample, the EOS test and the confidence block
Sample ==
    /\ pc = "sample"
    /\ engineOps' = engineOps + 1
    /\ \E tok \in TokenKinds, c \in ConfidenceValues :
         /\ IF tok = "eos"
            THEN /\ UNCHANGED new_token
                 /\ End("natural", EV_SUCCESS)
                 /\ eosSampled' = TRUE
                 /\ UNCHANGED confVars
            ELSE /\ new_token' = tok
                 /\ pc' = "piece"
                 /\ IF ConfidenceEnabled
                    THEN /\ last_confidence' = c
                         /\ confidence_sum' = confidence_sum + c
                         /\ confidence_count' = confidence_count + 1
                         /\ needs_handoff' = HandoffUpdate(needs_handoff,
                                                 confidence_sum + c, confidence_count + 1)
                         /\ Measure(c)
                    ELSE UNCHANGED confVars
                 /\ UNCHANGED <<retVars, ended, endCause, endStatus, eosSampled>>
    /\ UNCHANGED <<frameVars, paramVars, cancelVars, decodeFailed, fragAfterFail, allocFailed,
                   n_cur, prompt_evaluated, i, calls, decAfterCancel>>

\* llama_token_to_piece and the start of the feed-back llama_decode
DecodeStart ==
    /\ pc = "piece"
    /\ n_cur' = IF new_token = "empty" THEN n_cur + 1 ELSE n_cur
    /\ engineOps' = engineOps + 1
    /\ decAfterCancel' = IF cancelled THEN decAfterCancel + 1 ELSE decAfterCancel
    /\ pc' = "decoderun"
    /\ UNCHANGED <<frameVars, paramVars, confVars, cancelVars, failVars, retVars,
                   ended, prompt_evaluated, i, new_token, calls,
                   endCause, endStatus>>

\* completion of the feed-back llama_decode, malloc of the fragment, return
DecodeEnd ==
    /\ pc = "decoderun"
    /\ new_token' = "text"
    /\ \E ok \in BOOLEAN, mallocOk \in BOOLEAN :
         /\ decodeFailed' = (decodeFailed \/ ~ok)
         /\ IF new_token = "empty"
            THEN /\ allocFailed' = (allocFailed \/ ~mallocOk)
                 /\ Return(IF mallocOk THEN "empty" ELSE "none", EV_SUCCESS)
                 /\ fragAfterFail' = (fragAfterFail \/ (mallocOk /\ (decodeFailed \/ ~ok)))
                 /\ UNCHANGED <<ended, endCause, endStatus, n_cur>>
            ELSE IF ~ok
            THEN /\ End("error", EV_ERROR_INFERENCE_FAILED)
                 /\ UNCHANGED <<n_cur, allocFailed, fragAfterFail>>
            ELSE /\ n_cur' = n_cur + 1
                 /\ allocFailed' = (allocFailed \/ ~mallocOk)
                 /\ IF mallocOk
                    THEN Return("text", EV_SUCCESS)
                    ELSE Return("none", EV_ERROR_OUT_OF_MEMORY)
                 /\ fragAfterFail' = (fragAfterFail \/ (mallocOk /\ decodeFailed))
                 /\ UNCHANGED <<ended, endCause, endStatus>>
    /\ UNCHANGED <<frameVars, paramVars, confVars, cancelVars, eosSampled,
                   prompt_evaluated, i, calls, engineOps, decAfterCancel>>

\* ---------------------------------------------------- ev_stream_cancel
Cancel ==
    /\ cancelled' = TRUE
    /\ cancelBeforeFirst' = IF cancelled THEN cancelBeforeFirst ELSE (calls = 0)
    /\ chunksLeftAtCancel' = IF cancelled THEN chunksLeftAtCancel ELSE ChunksToStart
    /\ UNCHANGED <<frameVars, paramVars, confVars, failVars, retVars,
                   ended, n_cur, prompt_evaluated, pc, i, new_token,
                   calls, endCause, endStatus, engineOps, decAfterCancel>>

\* -------------------------------------------------- ev_stream_has_next
\* !stream->ended && !stream->check_cancelled(), read under stream->mutex
HasNextIgnoresCancel == ~ended

ev_stream_has_next == ~ended /\ ~check_cancelled

\* a call of ev_stream_has_next: it needs stream->mutex, which a running
\* ev_stream_next holds, so it reads the session between two next() calls;
\* hasNextFalse records that some call has returned false
HasNext ==
    /\ pc = "idle"
    /\ hasNextFalse' = (hasNextFalse \/ ~ev_stream_has_next)
    /\ UNCHANGED <<auxVars, ctxVars, startVars, guardVars, paramVars, confVars, cancelVars, failVars,
                   retVars, ended, n_cur, prompt_evaluated, pc, i, new_token,
                   calls, endCause, endStatus, engineOps, decAfterCancel>>

Next ==
    \/ NextCall
    \/ EntryCheck
    \/ PromptBegin
    \/ ChunkStart
    \/ ChunkEnd
    \/ MaxCheck
    \/ Check2
    \/ Sample
    \/ DecodeStart
    \/ DecodeEnd
    \/ Cancel
    \/ HasNext

Spec == Init /\ [][Next]_vars

TypeOK ==
    /\ pc \in {"idle", "entry", "prompt", "chunk", "chunkrun", "maxcheck",
               "check2", "sample", "piece", "decoderun"}
    /\ ended \in BOOLEAN /\ cancelled \in BOOLEAN
    /\ n_cur \in 0..(MaxPrompt + MaxTokensBound)
    /\ confidence_count = histCount
    /\ confidence_sum = histSum

\* ===================================================================
\* Several callers on one ev_context: ev_generate_stream, ev_stream_next
\* and ev_stream_free of two sessions, and ev_generate, ev_reset,
\* ev_memory_cleanup, ev_set_memory_limit and
\* ev_set_memory_pressure_callback of a third thread.  Every engine
\* operation (cache clear, prompt decode, sampling, token decode) is a
\* step that takes time: a thread is inside it while its position is one
\* of EnginePcs.  A session here keeps what the context level needs; the
\* steps inside one ev_stream_next are those of the session model above,
\* with the prompt decoded as one chunk and max_tokens = MaxGen.
\* ===================================================================
EnginePcs == {"clear", "pdecode", "sample", "tdecode"}

InEngine(t) == tpc[t] \in EnginePcs

\* bool ev_is_valid(ctx): ctx != nullptr && ctx->model_loaded
ev_is_valid == ctx.model_loaded

\* llama_n_ctx(ctx->llama_ctx)
llama_n_ctx == NCtx

\* prompt_tokens.size() > n_ctx - 4
PromptTooLong(ntok, nctx) == ntok > nctx - SafetyMargin

\* ev_generate_stream as a function of the prompt (absent, or its token
\* count), of the two allocations and of the context size; cause names the
\* branch taken
ev_generate_stream(promptNull, ntok, allocOk, samplerOk, nctx) ==
    IF promptNull
    THEN [cause |-> "null", status |-> EV_ERROR_INVALID_PARAM, returned |-> FALSE]
    ELSE IF ~ev_is_valid
    THEN [cause |-> "invalid_ctx", status |-> EV_ERROR_CONTEXT_INVALID, returned |-> FALSE]
    ELSE IF ~allocOk
    THEN [cause |-> "oom", status |-> EV_ERROR_OUT_OF_MEMORY, returned |-> FALSE]
    ELSE IF ntok = 0
    THEN [cause |-> "tokenize", status |-> EV_ERROR_INFERENCE_FAILED, returned |-> FALSE]
    ELSE IF PromptTooLong(ntok, nctx)
    THEN [cause |-> "too_long", status |-> EV_ERROR_INFERENCE_FAILED, returned |-> FALSE]
    ELSE IF ~samplerOk
    THEN [cause |-> "sampler", status |-> EV_ERROR_INFERENCE_FAILED, returned |-> FALSE]
    ELSE [cause |-> "ok", status |-> EV_SUCCESS, returned |-> TRUE]

StartInputs(nctx) ==
    [promptNull : BOOLEAN, ntok : 0..NCtx, allocOk : BOOLEAN,
     samplerOk : BOOLEAN, n_ctx : {nctx}]

start(in) ==
    ev_generate_stream(in.promptNull, in.ntok, in.allocOk, in.samplerOk, in.n_ctx)

\* every outcome ev_generate_stream can have on a context of that size
StartResults(nctx) == {start(in) : in \in StartInputs(nctx)}

\* std::lock_guard<std::mutex> on ctx->mutex: the caller proceeds when the
\* mutex is free
CtxMutexIgnored == TRUE

CtxMutexFree == ctx_mutex = "free"

\* what a failing llama_decode inside ev_stream_next does to the context:
\* the failure branches write stream->ended and *error only
ContextInvalidatedByFailure == [ctx EXCEPT !.model_loaded = FALSE]

ContextAfterStreamFailure == ctx

\* end of a call that held ctx->mutex
Release(t) ==
    /\ ctx_mutex' = "free"
    /\ tpc' = [tpc EXCEPT ![t] = "idle"]

\* the outcomes of ev_generate_stream that return before the tokenization
EarlyCauses == {"null", "invalid_ctx", "oom"}

\* the engine calls of ev_generate_stream: tokenize_prompt on ctx->model and
\* llama_n_ctx on ctx->llama_ctx
StartEnginePcs == {"tokenize"}

\* ev_generate_stream by the thread of session s, up to tokenize_prompt; it
\* takes no lock
SStart(s) ==
    /\ tpc[s] = "idle"
    /\ ~sess[s].live
    /\ \E r \in StartResults(llama_n_ctx) :
         tpc' = IF r.cause \in EarlyCauses
                THEN tpc
                ELSE [tpc EXCEPT ![s] = "tokenize"]
    /\ UNCHANGED <<auxVars, guardVars, streamVars, ctx_mutex, ctx, sess, api_op, api_i, failSeen, startVars>>

\* the tokenization and the context-size read are done; the rest of
\* ev_generate_stream and its return
SStartEnd(s) ==
    /\ tpc[s] = "tokenize"
    /\ \E r \in StartResults(llama_n_ctx) :
         /\ r.cause \notin EarlyCauses
         /\ sess' = IF r.returned
                    THEN [sess EXCEPT ![s] = [NoSession EXCEPT !.live = TRUE,
                                                              !.afterFail = failSeen]]
                    ELSE sess
    /\ tpc' = [tpc EXCEPT ![s] = "idle"]
    /\ UNCHANGED <<auxVars, guardVars, streamVars, ctx_mutex, ctx, api_op, api_i, failSeen, startVars>>

\* ev_stream_free
SFree(s) ==
    /\ tpc[s] = "idle"
    /\ sess[s].live
    /\ sess' = [sess EXCEPT ![s] = NoSession]
    /\ UNCHANGED <<auxVars, guardVars, streamVars, ctx_mutex, ctx, tpc, api_op, api_i, failSeen, startVars>>

\* ev_stream_next up to the lock of ctx->mutex: an ended session returns
\* none at once, without the context
SNext(s) ==
    /\ tpc[s] = "idle"
    /\ sess[s].live
    /\ tpc' = IF sess[s].ended THEN tpc ELSE [tpc EXCEPT ![s] = "wait"]
    /\ UNCHANGED <<auxVars, guardVars, streamVars, ctx_mutex, ctx, sess, api_op, api_i, failSeen, startVars>>

\* the lock_guard on ctx->mutex of any of the calls
Acquire(t) ==
    /\ tpc[t] = "wait"
    /\ CtxMutexFree
    /\ ctx_mutex' = t
    /\ tpc' = [tpc EXCEPT ![t] = "locked"]
    /\ UNCHANGED <<auxVars, guardVars, streamVars, ctx, sess, api_op, api_i, failSeen, startVars>>

\* stream->ended = true; return nullptr
SEnd(s) ==
    /\ sess' = [sess EXCEPT ![s].ended = TRUE]
    /\ Release(s)

\* first call: begin the cache clear; later calls: the max_tokens check
SBody(s) ==
    /\ tpc[s] = "locked"
    /\ IF ~sess[s].prompt_evaluated
       THEN /\ tpc' = [tpc EXCEPT ![s] = "clear"]
            /\ UNCHANGED <<ctx_mutex, sess>>
       ELSE IF sess[s].gen >= MaxGen
       THEN SEnd(s)
       ELSE /\ tpc' = [tpc EXCEPT ![s] = "sample"]
            /\ UNCHANGED <<ctx_mutex, sess>>
    /\ UNCHANGED <<auxVars, guardVars, streamVars, ctx, api_op, api_i, failSeen, startVars>>

\* llama_memory_clear done, prompt llama_decode begins
SClearEnd(s) ==
    /\ tpc[s] = "clear"
    /\ tpc' = [tpc EXCEPT ![s] = "pdecode"]
    /\ UNCHANGED <<auxVars, guardVars, streamVars, ctx_mutex, ctx, sess, api_op, api_i, failSeen, startVars>>

\* the prompt llama_decode returns
SPDecodeEnd(s) ==
    /\ tpc[s] = "pdecode"
    /\ \E ok \in BOOLEAN :
         IF ok
         THEN /\ sess' = [sess EXCEPT ![s].prompt_evaluated = TRUE]
              /\ tpc' = [tpc EXCEPT ![s] = "locked"]
              /\ UNCHANGED <<ctx_mutex, ctx, failSeen>>
         ELSE /\ SEnd(s)
              /\ ctx' = ContextAfterStreamFailure
              /\ failSeen' = TRUE
    /\ UNCHANGED <<auxVars, guardVars, streamVars, api_op, api_i, startVars>>

\* llama_sampler_sample returns: end of generation, or a token whose
\* feed-back llama_decode begins
SSampleEnd(s) ==
    /\ tpc[s] = "sample"
    /\ \E eos \in BOOLEAN :
         IF eos
         THEN SEnd(s)
         ELSE /\ tpc' = [tpc EXCEPT ![s] = "tdecode"]
              /\ UNCHANGED <<ctx_mutex, sess>>
    /\ UNCHANGED <<auxVars, guardVars, streamVars, ctx, api_op, api_i, failSeen, startVars>>

\* the feed-back llama_decode returns (a failure after an empty piece is
\* not looked at and leaves the session as a success does)
STDecodeEnd(s) ==
    /\ tpc[s] = "tdecode"
    /\ \E ok \in BOOLEAN :
         IF ok
         THEN /\ sess' = [sess EXCEPT ![s].gen = @ + 1]
              /\ Release(s)
              /\ UNCHANGED <<ctx, failSeen>>
         ELSE /\ SEnd(s)
              /\ ctx' = ContextAfterStreamFailure
              /\ failSeen' = TRUE
    /\ UNCHANGED <<auxVars, guardVars, streamVars, api_op, api_i, startVars>>

\* ---- the API thread
ApiRelease ==
    /\ Release(ApiThread)
    /\ api_op' = "none"
    /\ api_i' = 0

\* return of ev_generate with ctx->last_error = msg
ApiFail(msg) ==
    /\ ctx' = [ctx EXCEPT !.last_error = msg]
    /\ ApiRelease

\* entry of one of the calls, up to its lock of ctx->mutex; ev_generate and
\* ev_reset return EV_ERROR_CONTEXT_INVALID before it if !ev_is_valid(ctx)
ApiCall ==
    /\ tpc[ApiThread] = "idle"
    /\ \E op \in ApiOps :
         IF op \in {"generate", "reset"} /\ ~ev_is_valid
         THEN UNCHANGED <<tpc, api_op>>
         ELSE /\ api_op' = op
              /\ tpc' = [tpc EXCEPT ![ApiThread] = "wait"]
    /\ UNCHANGED <<auxVars, guardVars, streamVars, ctx_mutex, ctx, sess, api_i, failSeen, startVars>>

\* under the lock: ev_set_memory_limit and ev_set_memory_pressure_callback
\* store their argument and return; the three others begin the cache clear
ApiBody ==
    /\ tpc[ApiThread] = "locked"
    /\ IF api_op = "set_limit"
       THEN /\ \E l \in 0..1 : ctx' = [ctx EXCEPT !.memory_limit = l]
            /\ ApiRelease
       ELSE IF api_op = "set_callback"
       THEN /\ \E cb \in {"none", "cb"} : ctx' = [ctx EXCEPT !.memory_callback = cb]
            /\ ApiRelease
       ELSE /\ tpc' = [tpc EXCEPT ![ApiThread] = "clear"]
            /\ UNCHANGED <<ctx_mutex, ctx, api_op, api_i>>
    /\ UNCHANGED <<auxVars, guardVars, streamVars, sess, failSeen, startVars>>

\* llama_memory_clear done: ev_reset and ev_memory_cleanup return;
\* ev_generate tokenizes, tests the size and begins the prompt decode
ApiClearEnd ==
    /\ tpc[ApiThread] = "clear"
    /\ IF api_op # "generate"
       THEN ApiRelease /\ UNCHANGED ctx
       ELSE \E ntok \in 0..NCtx :
              IF ntok = 0
              THEN ApiFail("Failed to tokenize prompt")
              ELSE IF PromptTooLong(ntok, llama_n_ctx)
              THEN ApiFail("Prompt too long for context size")
              ELSE /\ tpc' = [tpc EXCEPT ![ApiThread] = "pdecode"]
                   /\ UNCHANGED <<ctx_mutex, ctx, api_op, api_i>>
    /\ UNCHANGED <<auxVars, guardVars, streamVars, sess, failSeen, startVars>>

\* the prompt llama_decode of ev_generate returns; create_sampler; the
\* generation loop starts with i = 0 < max_tokens
ApiPDecodeEnd ==
    /\ tpc[ApiThread] = "pdecode"
    /\ \E ok \in BOOLEAN, samplerOk \in BOOLEAN :
         IF ~ok
         THEN ApiFail("Failed to evaluate prompt")
         ELSE IF ~samplerOk
         THEN ApiFail("Failed to create sampler")
         ELSE /\ tpc' = [tpc EXCEPT ![ApiThread] = "sample"]
              /\ api_i' = 0
              /\ UNCHANGED <<ctx_mutex, ctx, api_op>>
    /\ UNCHANGED <<auxVars, guardVars, streamVars, sess, failSeen, startVars>>

ApiSampleEnd ==
    /\ tpc[ApiThread] = "sample"
    /\ \E eos \in BOOLEAN :
         IF eos
         THEN ApiRelease
         ELSE /\ tpc' = [tpc EXCEPT ![ApiThread] = "tdecode"]
              /\ UNCHANGED <<ctx_mutex, api_op, api_i>>
    /\ UNCHANGED <<auxVars, guardVars, streamVars, ctx, sess, failSeen, startVars>>

\* the feed-back llama_decode of ev_generate returns; ++i; i < max_tokens
ApiTDecodeEnd ==
    /\ tpc[ApiThread] = "tdecode"
    /\ \E ok \in BOOLEAN :
         IF ~ok
         THEN ApiFail("Failed during generation")
         ELSE /\ UNCHANGED ctx
              /\ IF api_i + 1 < MaxGen
                 THEN /\ api_i' = api_i + 1
                      /\ tpc' = [tpc EXCEPT ![ApiThread] = "sample"]
                      /\ UNCHANGED <<ctx_mutex, api_op>>
                 ELSE ApiRelease
    /\ UNCHANGED <<auxVars, guardVars, streamVars, sess, failSeen, startVars>>

\* the context created by ev_init with memory_limit_bytes 0 or not
CtxInit ==
    /\ \E l \in 0..1 :
         ctx = [model_loaded |-> TRUE, memory_limit |-> l,
                memory_callback |-> "none", last_error |-> ""]
    /\ ctx_mutex = "free"
    /\ sess = [s \in Sessions |-> NoSession]
    /\ tpc = [t \in Threads |-> "idle"]
    /\ api_op = "none"
    /\ api_i = 0
    /\ failSeen = FALSE
    /\ StreamAtRest
    /\ StartAtRest
    /\ AuxAtRest
    /\ GuardAtRest

CtxNext ==
    \/ \E s \in Sessions : SStart(s)
    \/ \E s \in Sessions : SStartEnd(s)
    \/ \E s \in Sessions : SFree(s)
    \/ \E s \in Sessions : SNext(s)
    \/ \E t \in Threads : Acquire(t)
    \/ \E s \in Sessions : SBody(s)
    \/ \E s \in Sessions : SClearEnd(s)
    \/ \E s \in Sessions : SPDecodeEnd(s)
    \/ \E s \in Sessions : SSampleEnd(s)
    \/ \E s \in Sessions : STDecodeEnd(s)
    \/ ApiCall
    \/ ApiBody
    \/ ApiClearEnd
    \/ ApiPDecodeEnd
    \/ ApiSampleEnd
    \/ ApiTDecodeEnd

CtxSpec == CtxInit /\ [][CtxNext]_vars

CtxTypeOK ==
    /\ ctx_mutex \in Threads \cup {"free"}
    /\ \A t \in Threads : tpc[t] \in {"idle", "wait", "locked"} \cup EnginePcs
                                    \cup StartEnginePcs
    /\ \A s \in Sessions : sess[s].gen \in 0..MaxGen
    /\ api_i \in 0..MaxGen

\* ===================================================================
\* ev_generate_stream alone: a call with any prompt on a context of any
\* size 1..NCtx (ev_init gives a context size >= 1), and its return
\* ===================================================================
StartPending == [cause |-> "pending", status |-> EV_SUCCESS, returned |-> FALSE]

StartCall ==
    /\ lastStart # StartPending
    /\ \E nctx \in 1..NCtx : startIn' \in StartInputs(nctx)
    /\ lastStart' = StartPending
    /\ UNCHANGED <<auxVars, guardVars, streamVars, ctxVars>>

StartReturn ==
    /\ lastStart = StartPending
    /\ lastStart' = start(startIn)
    /\ UNCHANGED <<auxVars, guardVars, streamVars, ctxVars, startIn>>

StartInit ==
    /\ StreamAtRest
    /\ CtxAtRest
    /\ StartAtRest
    /\ AuxAtRest
    /\ GuardAtRest

StartNext ==
    \/ StartCall
    \/ StartReturn

StartSpec == StartInit /\ [][StartNext]_vars

\* ---- the monitor thread
\* loop test; probe and store of current_usage
MPoll ==
    /\ mpc = "loop"
    /\ IF monitoring_active
       THEN \E sample \in Samples :
              /\ m_current' = sample
              /\ current_usage' = sample
              /\ polled' = <<sample>>
              /\ cb_args' = <<>>
              /\ cb_called' = <<>>
              /\ mpc' = "peak"
       ELSE /\ mpc' = "exited"
            /\ UNCHANGED <<m_current, current_usage, polled, cb_args, cb_called>>
    /\ UNCHANGED <<queryVars, callback_user_data, c_user_data, auxVars, tuneVars, streamVars, ctxVars, startVars, memory_limit, peak_usage,
                   pressure_callback, monitoring_active, pressure_threshold,
                   g_mutex, m_peak, m_limit, cpc, threadOverwritten>>

\* size_t peak = peak_usage.load()
MPeakLoad ==
    /\ mpc = "peak"
    /\ m_peak' = peak_usage
    /\ mpc' = "cas"
    /\ UNCHANGED <<queryVars, cbVars, auxVars, tuneVars, streamVars, ctxVars, startVars, memory_limit, current_usage,
                   peak_usage, pressure_callback, monitoring_active,
                   pressure_threshold, g_mutex, m_current, m_limit, cpc,
                   polled, cb_args, threadOverwritten>>

\* one turn of while (current > peak) compare_exchange_weak(peak, current)
MCas ==
    /\ mpc = "cas"
    /\ IF m_current > m_peak
       THEN IF peak_usage = m_peak
            THEN /\ peak_usage' = m_current
                 /\ mpc' = "limit"
                 /\ UNCHANGED m_peak
            ELSE /\ m_peak' = peak_usage
                 /\ UNCHANGED <<peak_usage, mpc>>
       ELSE /\ mpc' = "limit"
            /\ UNCHANGED <<peak_usage, m_peak>>
    /\ UNCHANGED <<queryVars, cbVars, auxVars, tuneVars, streamVars, ctxVars, startVars, memory_limit, current_usage,
                   pressure_callback, monitoring_active, pressure_threshold,
                   g_mutex, m_current, m_limit, cpc, polled, cb_args,
                   threadOverwritten>>

\* limit = memory_limit.load() and the pressure test
MCheck ==
    /\ mpc = "limit"
    /\ m_limit' = memory_limit
    /\ mpc' = IF MonitorPressure(m_current, memory_limit) THEN "lock" ELSE "sleep"
    /\ UNCHANGED <<queryVars, cbVars, auxVars, tuneVars, streamVars, ctxVars, startVars, memory_limit, current_usage,
                   peak_usage, pressure_callback, monitoring_active,
                   pressure_threshold, g_mutex, m_current, m_peak, cpc,
                   polled, cb_args, threadOverwritten>>

\* the monitor's std::lock_guard waits until the guard mutex is free
MonitorLockSkipped == TRUE

MonitorLockFree == g_mutex = "free"

\* std::lock_guard on g_memory_guard.mutex
MLock ==
    /\ mpc = "lock"
    /\ MonitorLockFree
    /\ g_mutex' = "monitor"
    /\ mpc' = "dispatch"
    /\ UNCHANGED <<queryVars, cbVars, auxVars, tuneVars, streamVars, ctxVars, startVars, memory_limit, current_usage,
                   peak_usage, pressure_callback, monitoring_active,
                   pressure_threshold, m_current, m_peak, m_limit, cpc,
                   polled, cb_args, threadOverwritten>>

\* if (pressure_callback) pressure_callback(user_data, current, limit);
\* end of the lock_guard's scope
MDispatch ==
    /\ mpc = "dispatch"
    /\ cb_args' = IF pressure_callback # "none" THEN <<m_current, m_limit>> ELSE <<>>
    /\ cb_called' = IF pressure_callback # "none"
                    THEN <<pressure_callback, callback_user_data>>
                    ELSE <<>>
    /\ g_mutex' = "free"
    /\ mpc' = "sleep"
    /\ UNCHANGED <<queryVars, callback_user_data, c_user_data, auxVars, tuneVars, streamVars, ctxVars, startVars, memory_limit, current_usage,
                   peak_usage, pressure_callback, monitoring_active,
                   pressure_threshold, m_current, m_peak, m_limit, cpc,
                   polled, threadOverwritten>>

\* sleep_for(check_interval) is over
MWake ==
    /\ mpc = "sleep"
    /\ mpc' = "loop"
    /\ m_current' = 0
    /\ m_peak' = 0
    /\ m_limit' = 0
    /\ UNCHANGED <<queryVars, cbVars, auxVars, tuneVars, streamVars, ctxVars, startVars, memory_limit, current_usage,
                   peak_usage, pressure_callback, monitoring_active,
                   pressure_threshold, g_mutex, cpc, polled, cb_args,
                   threadOverwritten>>

\* ---- the calling thread
\* memory_guard_set_limit, to its return or to the join of stop_monitoring;
\* the guard mutex is held from the first line to the return
\* the body of memory_guard_set_limit(l) once it has the guard mutex
memory_guard_set_limit(l) ==
    /\ memory_limit' = l
    /\ IF l > 0
       THEN /\ IF StartGuard
               THEN UNCHANGED <<monitoring_active, mpc, threadOverwritten, polled>>
               ELSE /\ monitoring_active' = TRUE
                    /\ threadOverwritten' = (threadOverwritten \/ Joinable)
                    /\ mpc' = "loop"
                    /\ polled' = <<>>
            /\ UNCHANGED <<g_mutex, cpc>>
       ELSE IF ~monitoring_active
       THEN UNCHANGED <<monitoring_active, mpc, threadOverwritten, g_mutex,
                        cpc, polled>>
       ELSE /\ monitoring_active' = FALSE
            /\ IF Joinable
               THEN g_mutex' = "caller" /\ cpc' = "join"
               ELSE UNCHANGED <<g_mutex, cpc>>
            /\ UNCHANGED <<mpc, threadOverwritten, polled>>
    /\ UNCHANGED <<queryVars, cbVars, tuneVars, current_usage, peak_usage,
                   pressure_callback, pressure_threshold, m_current, m_peak,
                   m_limit, cb_args>>

GSetLimit ==
    /\ cpc = "idle"
    /\ g_mutex = "free"
    /\ \E l \in 0..MaxLimit : memory_guard_set_limit(l)
    /\ UNCHANGED <<auxVars, streamVars, ctxVars, startVars>>

\* monitor_thread.join() returns once the monitor has left its loop; then
\* stop_monitoring and memory_guard_set_limit return
GJoin ==
    /\ cpc = "join"
    /\ mpc = "exited"
    /\ mpc' = "none"
    /\ g_mutex' = "free"
    /\ cpc' = "idle"
    /\ UNCHANGED <<queryVars, cbVars, auxVars, tuneVars, streamVars, ctxVars, startVars, memory_limit, current_usage,
                   peak_usage, pressure_callback, monitoring_active,
                   pressure_threshold, m_current, m_peak, m_limit, polled,
                   cb_args, threadOverwritten>>

\* memory_guard_init
GInit ==
    /\ cpc = "idle"
    /\ g_mutex = "free"
    /\ \E sample \in Samples :
         /\ current_usage' = sample
         /\ peak_usage' = sample
    /\ UNCHANGED <<queryVars, cbVars, auxVars, tuneVars, streamVars, ctxVars, startVars, memory_limit,
                   pressure_callback, monitoring_active, pressure_threshold,
                   g_mutex, mpc, m_current, m_peak, m_limit, cpc, polled,
                   cb_args, threadOverwritten>>

\* memory_guard_cleanup (takes no lock)
GCleanup ==
    /\ cpc = "idle"
    /\ \E sample \in Samples : current_usage' = sample
    /\ UNCHANGED <<queryVars, cbVars, auxVars, tuneVars, streamVars, ctxVars, startVars, memory_limit, peak_usage,
                   pressure_callback, monitoring_active, pressure_threshold,
                   g_mutex, mpc, m_current, m_peak, m_limit, cpc, polled,
                   cb_args, threadOverwritten>>

\* memory_guard_reset_stats
GResetStats ==
    /\ cpc = "idle"
    /\ g_mutex = "free"
    /\ peak_usage' = 0
    /\ current_usage' = 0
    /\ UNCHANGED <<queryVars, cbVars, auxVars, tuneVars, streamVars, ctxVars, startVars, memory_limit,
                   pressure_callback, monitoring_active, pressure_threshold,
                   g_mutex, mpc, m_current, m_peak, m_limit, cpc, polled,
                   cb_args, threadOverwritten>>

\* memory_guard_set_callback up to its first store: the lock_guard is taken
\* and pressure_callback is written
GSetCallback ==
    /\ cpc = "idle"
    /\ g_mutex = "free"
    /\ \E arg \in CallbackArgs :
         /\ pressure_callback' = arg[1]
         /\ c_user_data' = arg[2]
    /\ g_mutex' = "caller"
    /\ cpc' = "setcb"
    /\ UNCHANGED <<queryVars, auxVars, tuneVars, streamVars, ctxVars, startVars, memory_limit, current_usage,
                   peak_usage, monitoring_active, pressure_threshold,
                   mpc, m_current, m_peak, m_limit, polled,
                   cb_args, threadOverwritten, callback_user_data, cb_called>>

\* its second store, callback_user_data = user_data, and its return
GSetCallbackData ==
    /\ cpc = "setcb"
    /\ callback_user_data' = c_user_data
    /\ c_user_data' = "null"
    /\ g_mutex' = "free"
    /\ cpc' = "idle"
    /\ UNCHANGED <<queryVars, auxVars, tuneVars, streamVars, ctxVars, startVars, memory_limit, current_usage,
                   peak_usage, pressure_callback, monitoring_active,
                   pressure_threshold, mpc, m_current, m_peak, m_limit,
                   polled, cb_args, threadOverwritten, cb_called>>

\* memory_guard_shutdown, first part: stop_monitoring() called without the
\* guard mutex; it returns at once if monitoring is off, else clears the
\* flag and joins the monitor thread
GShutdown ==
    /\ cpc = "idle"
    /\ IF ~monitoring_active
       THEN /\ cpc' = "sd_reset"
            /\ UNCHANGED monitoring_active
       ELSE /\ monitoring_active' = FALSE
            /\ cpc' = IF Joinable THEN "sd_join" ELSE "sd_reset"
    /\ UNCHANGED <<queryVars, cbVars, auxVars, tuneVars, streamVars, ctxVars, startVars, memory_limit,
                   current_usage, peak_usage, pressure_callback,
                   pressure_threshold, g_mutex, mpc, m_current, m_peak,
                   m_limit, polled, cb_args, threadOverwritten>>

\* monitor_thread.join() of that stop_monitoring returns
GShutdownJoin ==
    /\ cpc = "sd_join"
    /\ mpc = "exited"
    /\ mpc' = "none"
    /\ cpc' = "sd_reset"
    /\ UNCHANGED <<queryVars, cbVars, auxVars, tuneVars, streamVars, ctxVars, startVars, memory_limit,
                   current_usage, peak_usage, pressure_callback,
                   monitoring_active, pressure_threshold, g_mutex, m_current,
                   m_peak, m_limit, polled, cb_args, threadOverwritten>>

\* memory_guard_reset_stats() inside memory_guard_shutdown
GShutdownReset ==
    /\ cpc = "sd_reset"
    /\ g_mutex = "free"
    /\ peak_usage' = 0
    /\ current_usage' = 0
    /\ cpc' = "sd_clear"
    /\ UNCHANGED <<queryVars, cbVars, auxVars, tuneVars, streamVars, ctxVars, startVars, memory_limit,
                   pressure_callback, monitoring_active, pressure_threshold,
                   g_mutex, mpc, m_current, m_peak, m_limit, polled, cb_args,
                   threadOverwritten>>

\* the locked tail of memory_guard_shutdown and its return
GShutdownClear ==
    /\ cpc = "sd_clear"
    /\ g_mutex = "free"
    /\ memory_limit' = 0
    /\ pressure_callback' = "none"
    /\ callback_user_data' = "null"
    /\ cpc' = "idle"
    /\ UNCHANGED <<queryVars, auxVars, tuneVars, streamVars, ctxVars, startVars, current_usage,
                   peak_usage, monitoring_active, pressure_threshold, g_mutex,
                   mpc, m_current, m_peak, m_limit, polled, cb_args,
                   threadOverwritten, c_user_data, cb_called>>

\* memory_guard_get_current_usage, memory_guard_get_peak_usage and
\* memory_guard_is_under_pressure take no lock: atomic loads (and a probe)
QueryWaitsForMutex == g_mutex = "free"

QueryLockFree == TRUE

\* one of the three queries, called and returned by any other thread
GQuery ==
    /\ QueryLockFree
    /\ \E probe \in Samples :
         get_current_usage(probe) \in Samples /\ get_peak_usage(probe) \in Samples
    /\ is_under_pressure \in BOOLEAN
    /\ q_while_locked' = (q_while_locked \/ g_mutex # "free")
    /\ UNCHANGED <<auxVars, cbVars, tuneVars, streamVars, ctxVars, startVars,
                   memory_limit, current_usage, peak_usage, pressure_callback,
                   monitoring_active, pressure_threshold, g_mutex, mpc,
                   m_current, m_peak, m_limit, cpc, polled, cb_args,
                   threadOverwritten>>

\* the guard before its first call, with any threshold that
\* memory_guard_set_threshold can have stored
GuardInit ==
    /\ StreamAtRest
    /\ CtxAtRest
    /\ StartAtRest
    /\ AuxAtRest
    /\ memory_limit = 0
    /\ current_usage = 0
    /\ peak_usage = 0
    /\ pressure_callback = "none"
    /\ monitoring_active = FALSE
    /\ pressure_threshold \in 0..TScale
    /\ g_mutex = "free"
    /\ mpc = "none"
    /\ MonitorLocalsAtRest
    /\ cpc = "idle"
    /\ polled = <<>>
    /\ cb_args = <<>>
    /\ threadOverwritten = FALSE
    /\ CallbackDataAtRest
    /\ TuneAtRest
    /\ q_while_locked = FALSE

GuardNext ==
    \/ MPoll
    \/ MPeakLoad
    \/ MCas
    \/ MCheck
    \/ MLock
    \/ MDispatch
    \/ MWake
    \/ GSetLimit
    \/ GJoin
    \/ GInit
    \/ GCleanup
    \/ GResetStats
    \/ GSetCallback
    \/ GSetCallbackData
    \/ GShutdown
    \/ GShutdownJoin
    \/ GShutdownReset
    \/ GShutdownClear

GuardSpec == GuardInit /\ [][GuardNext]_vars

GuardTypeOK ==
    /\ memory_limit \in 0..MaxLimit
    /\ current_usage \in Samples /\ peak_usage \in Samples
    /\ g_mutex \in {"free", "caller", "monitor"}
    /\ mpc \in {"none", "loop", "peak", "cas", "limit", "lock", "dispatch",
                "sleep", "exited"}
    /\ cpc \in {"idle", "join", "setcb", "sd_join", "sd_reset", "sd_clear"}

\* ===================================================================
\* The guard's two tuning calls, memory_guard_set_threshold and
\* memory_guard_set_check_interval, called one after the other with any
\* argument.  A float is the record [nan, v]: a NaN, or the number
\* v / TScale (the numbers beyond +-3 stand for huge ones and the
\* infinities); an ordered comparison with a NaN is false.  The interval is
\* an int.
\* ===================================================================
ThresholdArgs == {Float(v) : v \in (-3 * TScale)..(3 * TScale)} \cup {NaN}

\* the range of the int argument interval_ms
IntMax == 2147483647

IntMin == -IntMax - 1

IntervalArgs == {IntMin, -1, 0, 1, MinInterval - 1, MinInterval,
                 MinInterval + 1, DefaultInterval \div 2, DefaultInterval,
                 MaxInterval - 1, MaxInterval, MaxInterval + 1, IntMax}

\* memory_guard_set_threshold: the value it stores for argument threshold
set_threshold(threshold) ==
    LET t1 == IF FloatLess(threshold, Float(0)) THEN Float(0) ELSE threshold
    IN  IF FloatLess(Float(TScale), t1) THEN Float(TScale) ELSE t1

\* memory_guard_set_check_interval: the value it stores for interval_ms
set_check_interval(interval_ms) ==
    LET i1 == IF interval_ms < MinInterval THEN MinInterval ELSE interval_ms
    IN  IF i1 > MaxInterval THEN MaxInterval ELSE i1

GSetThreshold ==
    /\ cpc = "idle"
    /\ g_mutex = "free"
    /\ \E arg \in ThresholdArgs :
         /\ set_arg' = <<"threshold", arg>>
         /\ threshold_nan' = set_threshold(arg).nan
         /\ pressure_threshold' = set_threshold(arg).v
    /\ UNCHANGED <<queryVars, auxVars, cbVars, streamVars, ctxVars, startVars, memory_limit,
                   current_usage, peak_usage, pressure_callback,
                   monitoring_active, g_mutex, mpc, m_current, m_peak,
                   m_limit, cpc, polled, cb_args, threadOverwritten,
                   check_interval>>

GSetCheckInterval ==
    /\ cpc = "idle"
    /\ g_mutex = "free"
    /\ \E arg \in IntervalArgs :
         /\ set_arg' = <<"interval", Float(arg)>>
         /\ check_interval' = set_check_interval(arg)
    /\ UNCHANGED <<queryVars, auxVars, cbVars, streamVars, ctxVars, startVars, memory_limit,
                   current_usage, peak_usage, pressure_callback,
                   monitoring_active, pressure_threshold, g_mutex, mpc,
                   m_current, m_peak, m_limit, cpc, polled, cb_args,
                   threadOverwritten, threshold_nan>>

TuneInit ==
    /\ StreamAtRest
    /\ CtxAtRest
    /\ StartAtRest
    /\ AuxAtRest
    /\ GuardAtRest

TuneNext ==
    \/ GSetThreshold
    \/ GSetCheckInterval

TuneSpec == TuneInit /\ [][TuneNext]_vars

\* ===================================================================
\* Several ev_context objects in one process: ev_init, ev_set_memory_limit
\* and ev_free of engine.cpp, called one after the other, on top of the one
\* g_memory_guard and its monitor thread.
\* ===================================================================
\* llama_backend_init() and llama_backend_free() of llama.cpp; misordered
\* records an init of a backend that is up or a free of one that is down
llama_backend_init ==
    /\ misordered' = (misordered \/ backend_up)
    /\ backend_up' = TRUE

llama_backend_free ==
    /\ misordered' = (misordered \/ ~backend_up)
    /\ backend_up' = FALSE

\* how ev_init ends: the model fails to load, llama_init_from_model fails,
\* or the context is returned
InitOutcomes == {"model_failed", "context_failed", "ok"}

\* ev_init with config.memory_limit_bytes = l: llama_backend_init() first;
\* a failure calls llama_backend_free() and returns no context; the guard
\* is told only a positive limit
EvInit(c) ==
    /\ ~ctx_live[c]
    /\ cpc = "idle"
    /\ \E outcome \in InitOutcomes, l \in 0..MaxLimit :
         IF outcome = "ok"
         THEN /\ llama_backend_init
              /\ ctx_live' = [ctx_live EXCEPT ![c] = TRUE]
              /\ ctx_limit' = [ctx_limit EXCEPT ![c] = l]
              /\ IF l > 0
                 THEN g_mutex = "free" /\ memory_guard_set_limit(l)
                 ELSE UNCHANGED guardVars
         ELSE /\ misordered' = (misordered \/ backend_up)
              /\ backend_up' = FALSE
              /\ UNCHANGED <<ctx_live, ctx_limit, guardVars>>
    /\ UNCHANGED <<lateVars, samplerVars, scoreVars, g_backend_mutex,
                   g_backend_refcount, bpc, streamVars, ctxVars, startVars>>

\* ev_set_memory_limit(ctx, l)
EvSetMemoryLimit(c) ==
    /\ ctx_live[c]
    /\ cpc = "idle"
    /\ g_mutex = "free"
    /\ \E l \in 0..MaxLimit :
         /\ ctx_limit' = [ctx_limit EXCEPT ![c] = l]
         /\ memory_guard_set_limit(l)
    /\ UNCHANGED <<lateVars, samplerVars, scoreVars, backendVars, streamVars, ctxVars, startVars, ctx_live>>

\* ev_free: llama_backend_free() and delete ctx; the guard is not called
EvFree(c) ==
    /\ ctx_live[c]
    /\ cpc = "idle"
    /\ ctx_live' = [ctx_live EXCEPT ![c] = FALSE]
    /\ ctx_limit' = [ctx_limit EXCEPT ![c] = 0]
    /\ llama_backend_free
    /\ UNCHANGED <<lateVars, samplerVars, scoreVars, g_backend_mutex,
                   g_backend_refcount, bpc, streamVars, ctxVars, startVars,
                   guardVars>>

LimitInit ==
    /\ StreamAtRest
    /\ CtxAtRest
    /\ StartAtRest
    /\ GuardAtRest
    /\ AuxAtRest

LimitNext ==
    \/ MPoll
    \/ MPeakLoad
    \/ MCas
    \/ MCheck
    \/ MLock
    \/ MDispatch
    \/ MWake
    \/ GJoin
    \/ \E c \in Contexts : EvInit(c)
    \/ \E c \in Contexts : EvSetMemoryLimit(c)
    \/ \E c \in Contexts : EvFree(c)

LimitSpec == LimitInit /\ [][LimitNext]_vars

\* ===================================================================
\* core/src/backend_lifecycle.cpp: edge_veda_backend_acquire and
\* edge_veda_backend_release called by several threads.  Each call is split
\* at its lock, at the llama_backend_init / llama_backend_free call and at
\* the change of g_backend_refcount.  backend_up is the state of the llama
\* backend; misordered records an init of an initialised backend or a free
\* of one that is not.
\* ===================================================================
\* std::lock_guard on g_backend_mutex
BackendMutexIgnored == TRUE

BackendMutexFree == g_backend_mutex = "free"

\* edge_veda_backend_release: if (g_backend_refcount <= 0)
ReleaseGuardMissing == FALSE

ReleaseGuard == g_backend_refcount <= 0

\* a thread calls edge_veda_backend_acquire or edge_veda_backend_release
BCall(t) ==
    /\ bpc[t] = "idle"
    /\ \E op \in {"acq_lock", "rel_lock"} :
         /\ op = "acq_lock" => g_backend_refcount < MaxRef
         /\ bpc' = [bpc EXCEPT ![t] = op]
    /\ UNCHANGED <<g_backend_mutex, g_backend_refcount, backend_up, misordered>>
    /\ UNCHANGED <<lateVars, streamVars, ctxVars, startVars, guardVars, limitVars, scoreVars, samplerVars>>

\* the lock_guard of edge_veda_backend_acquire
BAcquire(t) ==
    /\ bpc[t] = "acq_lock"
    /\ BackendMutexFree
    /\ g_backend_mutex' = t
    /\ bpc' = [bpc EXCEPT ![t] = "acq_test"]
    /\ UNCHANGED <<g_backend_refcount, backend_up, misordered>>
    /\ UNCHANGED <<lateVars, streamVars, ctxVars, startVars, guardVars, limitVars, scoreVars, samplerVars>>

\* if (g_backend_refcount == 0) llama_backend_init();
BAcquireInit(t) ==
    /\ bpc[t] = "acq_test"
    /\ IF g_backend_refcount = 0
       THEN llama_backend_init
       ELSE UNCHANGED <<backend_up, misordered>>
    /\ bpc' = [bpc EXCEPT ![t] = "acq_inc"]
    /\ UNCHANGED <<g_backend_refcount, g_backend_mutex>>
    /\ UNCHANGED <<lateVars, streamVars, ctxVars, startVars, guardVars, limitVars, scoreVars, samplerVars>>

\* ++g_backend_refcount; return
BAcquireInc(t) ==
    /\ bpc[t] = "acq_inc"
    /\ g_backend_refcount' = g_backend_refcount + 1
    /\ g_backend_mutex' = "free"
    /\ bpc' = [bpc EXCEPT ![t] = "idle"]
    /\ UNCHANGED <<backend_up, misordered>>
    /\ UNCHANGED <<lateVars, streamVars, ctxVars, startVars, guardVars, limitVars, scoreVars, samplerVars>>

\* the lock_guard of edge_veda_backend_release
BRelease(t) ==
    /\ bpc[t] = "rel_lock"
    /\ BackendMutexFree
    /\ g_backend_mutex' = t
    /\ bpc' = [bpc EXCEPT ![t] = "rel_test"]
    /\ UNCHANGED <<g_backend_refcount, backend_up, misordered>>
    /\ UNCHANGED <<lateVars, streamVars, ctxVars, startVars, guardVars, limitVars, scoreVars, samplerVars>>

\* the refcount <= 0 return, or --g_backend_refcount
BReleaseDec(t) ==
    /\ bpc[t] = "rel_test"
    /\ IF ReleaseGuard
       THEN /\ g_backend_refcount' = 0
            /\ g_backend_mutex' = "free"
            /\ bpc' = [bpc EXCEPT ![t] = "idle"]
       ELSE /\ g_backend_refcount' = g_backend_refcount - 1
            /\ bpc' = [bpc EXCEPT ![t] = "rel_free"]
            /\ UNCHANGED g_backend_mutex
    /\ UNCHANGED <<backend_up, misordered>>
    /\ UNCHANGED <<lateVars, streamVars, ctxVars, startVars, guardVars, limitVars, scoreVars, samplerVars>>

\* if (g_backend_refcount == 0) llama_backend_free(); return
BReleaseFree(t) ==
    /\ bpc[t] = "rel_free"
    /\ IF g_backend_refcount = 0
       THEN llama_backend_free
       ELSE UNCHANGED <<backend_up, misordered>>
    /\ g_backend_mutex' = "free"
    /\ bpc' = [bpc EXCEPT ![t] = "idle"]
    /\ UNCHANGED g_backend_refcount
    /\ UNCHANGED <<lateVars, streamVars, ctxVars, startVars, guardVars, limitVars, scoreVars, samplerVars>>

BackendInit ==
    /\ StreamAtRest
    /\ CtxAtRest
    /\ StartAtRest
    /\ GuardAtRest
    /\ AuxAtRest

BackendNext ==
    \/ \E t \in BackendThreads : BCall(t)
    \/ \E t \in BackendThreads : BAcquire(t)
    \/ \E t \in BackendThreads : BAcquireInit(t)
    \/ \E t \in BackendThreads : BAcquireInc(t)
    \/ \E t \in BackendThreads : BRelease(t)
    \/ \E t \in BackendThreads : BReleaseDec(t)
    \/ \E t \in BackendThreads : BReleaseFree(t)

BackendSpec == BackendInit /\ [][BackendNext]_vars

\* ===================================================================
\* The confidence score of ev_stream_next (engine.cpp:761-791) as
\* arithmetic: softmax of the logits, Shannon entropy H, and
\* 1 - H / log(n_vocab), with the running sum and count that
\* ev_stream_get_token_info reports from.  The logit vectors are those with
\* n_top equal largest entries and all others so far below that their
\* probability is under the 1e-10 cut: then H = log(n_top).  n_top = n_vocab
\* is the uniform vector and n_top = 1 the one-hot spike.  Numbers are
\* floats in units of 1 / ConfUnit; x / 0 is a NaN for x = 0.
\* ===================================================================
\* log(n) in units of 1 / ConfUnit
Log(n) == <<0, 693, 1099, 1386, 1609, 1792>>[n]

\* a / b on floats; the only division by 0 is 0 / 0, since the divisor
\* log(1) comes with H = 0
FloatDiv(a, b) ==
    IF a.nan \/ b.nan \/ b.v = 0 THEN NaN
    ELSE Float((a.v * ConfUnit) \div b.v)

FloatSub(a, b) == IF a.nan \/ b.nan THEN NaN ELSE Float(a.v - b.v)

FloatAdd(a, b) == IF a.nan \/ b.nan THEN NaN ELSE Float(a.v + b.v)

\* the value stored in stream->last_confidence for a logit vector of
\* n_vocab entries of which top are the largest
Confidence(vocab, top) ==
    LET entropy == Float(Log(top))
        max_entropy == Float(Log(vocab))
    IN  FloatSub(Float(ConfUnit), FloatDiv(entropy, max_entropy))

\* ev_stream_get_token_info: confidence and avg_confidence
get_token_info ==
    [confidence |-> conf_last,
     avg_confidence |-> IF conf_count > 0
                        THEN FloatDiv(conf_sum, Float(conf_count * ConfUnit))
                        ELSE Sentinel]

\* one token of ev_stream_next with confidence_threshold > 0
ConfMeasure ==
    /\ conf_count < MaxMeasured
    /\ \E top \in 1..n_vocab :
         /\ n_top' = top
         /\ conf_last' = Confidence(n_vocab, top)
         /\ conf_sum' = FloatAdd(conf_sum, Confidence(n_vocab, top))
    /\ conf_count' = conf_count + 1
    /\ UNCHANGED n_vocab
    /\ UNCHANGED <<lateVars, streamVars, ctxVars, startVars, guardVars, limitVars,
                   backendVars, samplerVars>>

ConfInit ==
    /\ StreamAtRest
    /\ CtxAtRest
    /\ StartAtRest
    /\ GuardAtRest
    /\ LimitAtRest
    /\ BackendAtRest
    /\ SamplerAtRest
    /\ LateAtRest
    /\ n_vocab \in 1..MaxVocab
    /\ n_top = 0
    /\ conf_last = Sentinel
    /\ conf_sum = Float(0)
    /\ conf_count = 0

ConfNext == ConfMeasure

ConfSpec == ConfInit /\ [][ConfNext]_vars

\* ===================================================================
\* create_sampler (engine.cpp:444-484), the sampler chain that
\* ev_generate_stream builds from the generation parameters.  top_p and
\* temperature are floats in units of 1 / TScale; grammar_str is a null
\* pointer, the empty string or a grammar text; vocab is the model's
\* vocabulary, never null for a loaded model.
\* ===================================================================
SamplerParams ==
    [top_k : -1..2,
     top_p : {Float(v) : v \in 0..(TScale + 1)} \cup {NaN},
     temperature : {Float(v) : v \in -1..TScale} \cup {NaN},
     grammar_str : {"null", "", "root ::= x"}]

\* if (params.top_k > 0)
TopKWantedAtZero(params) == params.top_k >= 0

TopKWanted(params) == params.top_k > 0

\* if (params.top_p < 1.0f)
TopPWanted(params) == FloatLess(params.top_p, Float(TScale))

\* if (params.temperature > 0.0f)
TemperatureWanted(params) == FloatLess(Float(0), params.temperature)

\* if (params.grammar_str && params.grammar_str[0] != '\0' && vocab)
GrammarWanted(params) == params.grammar_str \notin {"null", ""}

\* llama_sampler_chain_add
chain_add(chain, wanted, stage) == IF wanted THEN Append(chain, stage) ELSE chain

create_sampler(params) ==
    LET c1 == chain_add(<<>>, TRUE, "Penalties")
        c2 == chain_add(c1, TopKWanted(params), "TopK")
        c3 == chain_add(c2, TopPWanted(params), "TopP")
        c4 == chain_add(c3, TemperatureWanted(params), "Temperature")
        c5 == chain_add(c4, GrammarWanted(params), "Grammar")
    IN  chain_add(c5, TRUE, "FinalDraw")

\* ev_generate_stream reaches create_sampler with some parameter set
SCreate ==
    /\ \E params \in SamplerParams :
         /\ gen_params' = params
         /\ sampler' = create_sampler(params)
    /\ UNCHANGED <<lateVars, streamVars, ctxVars, startVars, guardVars, limitVars,
                   backendVars, scoreVars>>

SamplerInit ==
    /\ StreamAtRest
    /\ CtxAtRest
    /\ StartAtRest
    /\ GuardAtRest
    /\ AuxAtRest

SamplerNext == SCreate

SamplerSpec == SamplerInit /\ [][SamplerNext]_vars

\* ===================================================================
\* The guard's queries beside the monitor: a reader thread calls them at
\* any moment while a caller sets limits and callbacks.
\* ===================================================================
QueryInit ==
    /\ StreamAtRest
    /\ CtxAtRest
    /\ StartAtRest
    /\ AuxAtRest
    /\ GuardAtRest

QueryNext ==
    \/ MPoll
    \/ MPeakLoad
    \/ MCas
    \/ MCheck
    \/ MLock
    \/ MDispatch
    \/ MWake
    \/ GSetLimit
    \/ GJoin
    \/ GSetCallback
    \/ GSetCallbackData
    \/ GQuery

QuerySpec == QueryInit /\ [][QueryNext]_vars


\* ===================================================================
\* The sequence cache of one ev_context (llama_get_memory(ctx->llama_ctx)):
\* what ev_stream_next of two sessions and ev_reset, ev_memory_cleanup and
\* ev_generate of a third caller put into it.  Each of these calls holds
\* ctx->mutex from before its first cache operation to its return, so a
\* call is one step.  A token is the pair of its owner and its position in
\* the owner's sequence (the prompt tokens first); a llama_decode that
\* succeeds appends its batch to the cache, one that fails appends nothing.
\* ===================================================================
ApiOwner == "api"

Tok(owner, k) == <<owner, k>>

\* the first n tokens of the owner's sequence
Prefix(owner, n) == [k \in 1..n |-> Tok(owner, k)]

\* llama_memory_clear(mem, true)
llama_memory_clear == <<>>

\* prompt lengths that ev_generate_stream accepts
PromptLengths == {n \in 1..MaxPrompt : ~PromptTooLong(n, llama_n_ctx)}

\* the first call of ev_stream_next: the cache clear and the prompt loop in
\* chunks of n_batch, of which the first nOk are decoded
PromptPhase(s, nOk) ==
    LET n == cache_prompt[s]
        done == IF nOk * NBatch < n THEN nOk * NBatch ELSE n
    IN  [cache |-> llama_memory_clear \o Prefix(s, done), ok |-> done = n]

\* ev_generate_stream returned a session
KStart(s) ==
    /\ ~sess[s].live
    /\ \E n \in PromptLengths :
         cache_prompt' = [cache_prompt EXCEPT ![s] = n]
    /\ sess' = [sess EXCEPT ![s] = [NoSession EXCEPT !.live = TRUE]]
    /\ UNCHANGED <<streamVars, startVars, guardVars, notCacheVars,
                   ctx_mutex, ctx, tpc, api_op,
                   api_i, failSeen, kv_cache, sampled>>

\* ev_stream_free
KFree(s) ==
    /\ sess[s].live
    /\ sess' = [sess EXCEPT ![s] = NoSession]
    /\ cache_prompt' = [cache_prompt EXCEPT ![s] = 1]
    /\ UNCHANGED <<streamVars, startVars, guardVars, notCacheVars,
                   ctx_mutex, ctx, tpc, api_op,
                   api_i, failSeen, kv_cache, sampled>>

\* one ev_stream_next call of a session that has not ended, with
\* max_tokens = MaxGen: eos is what the sampler returns, empty whether the
\* token's piece is empty, decodeOk the result of the feed-back llama_decode
KNext(s) ==
    /\ sess[s].live
    /\ ~sess[s].ended
    /\ \E nOk \in 0..CeilDiv(cache_prompt[s], NBatch),
          eos \in BOOLEAN, empty \in BOOLEAN, decodeOk \in BOOLEAN :
         LET first == ~sess[s].prompt_evaluated
             pp == PromptPhase(s, nOk)
             cache1 == IF first THEN pp.cache ELSE kv_cache
             cur == cache_prompt[s] + sess[s].gen
             fed == Append(cache1, Tok(s, cur + 1))
             sessEnded == [sess EXCEPT ![s].ended = TRUE,
                                 ![s].prompt_evaluated = ~(first /\ ~pp.ok)]
             sessFed == [sess EXCEPT ![s].gen = @ + 1,
                                  ![s].prompt_evaluated = TRUE]
         IN  IF first /\ ~pp.ok
             THEN kv_cache' = cache1 /\ sess' = sessEnded /\ UNCHANGED sampled
             ELSE IF sess[s].gen >= MaxGen
             THEN kv_cache' = cache1 /\ sess' = sessEnded /\ UNCHANGED sampled
             ELSE /\ sampled' = <<[session |-> s, cache |-> cache1, n_cur |-> cur]>>
                  /\ IF eos
                     THEN kv_cache' = cache1 /\ sess' = sessEnded
                     ELSE IF empty
                     THEN /\ kv_cache' = IF decodeOk THEN fed ELSE cache1
                          /\ sess' = sessFed
                     ELSE IF ~decodeOk
                     THEN kv_cache' = cache1 /\ sess' = sessEnded
                     ELSE kv_cache' = fed /\ sess' = sessFed
    /\ UNCHANGED <<streamVars, startVars, guardVars, notCacheVars,
                   ctx_mutex, ctx, tpc, api_op,
                   api_i, failSeen, cache_prompt>>

\* ev_reset
KReset ==
    /\ ev_is_valid
    /\ kv_cache' = llama_memory_clear
    /\ UNCHANGED <<streamVars, startVars, guardVars, notCacheVars,
                   ctxVars, cache_prompt, sampled>>

\* ev_memory_cleanup
KCleanup ==
    /\ kv_cache' = llama_memory_clear
    /\ UNCHANGED <<streamVars, startVars, guardVars, notCacheVars,
                   ctxVars, cache_prompt, sampled>>

\* ev_generate: the cache clear, then n tokens of its own (prompt chunks and
\* generated tokens) decoded before it returns or fails
KGenerate ==
    /\ ev_is_valid
    /\ \E n \in 0..MaxGen : kv_cache' = llama_memory_clear \o Prefix(ApiOwner, n)
    /\ UNCHANGED <<streamVars, startVars, guardVars, notCacheVars,
                   ctxVars, cache_prompt, sampled>>

CacheInit ==
    /\ StreamAtRest
    /\ CtxAtRest
    /\ StartAtRest
    /\ GuardAtRest
    /\ AuxAtRest

CacheNext ==
    \/ \E s \in Sessions : KStart(s)
    \/ \E s \in Sessions : KFree(s)
    \/ \E s \in Sessions : KNext(s)
    \/ KReset
    \/ KCleanup
    \/ KGenerate

CacheSpec == CacheInit /\ [][CacheNext]_vars


\* ===================================================================
\* The context mutex and the guard mutex together: one thread calls
\* ev_set_memory_limit and ev_set_memory_pressure_callback of engine.cpp,
\* which call the guard while they hold ctx->mutex, and the monitor thread
\* runs the registered wrapper, and through it the user's callback, while
\* it holds the guard mutex.  The user's callback may call
\* ev_memory_cleanup or ev_get_memory_usage, which lock ctx->mutex.
\* ===================================================================
Wrapper == "wrapper"

\* if (pressure_callback) pressure_callback(user_data, current, limit): the
\* wrapper calls ctx->memory_callback, which returns at once or first
\* calls into the context; without a callback the lock_guard's scope ends
LDispatch ==
    /\ mpc = "dispatch"
    /\ IF pressure_callback # "none" /\ ctx.memory_callback # "none"
       THEN \E reenters \in BOOLEAN :
              IF reenters
              THEN mpc' = "cb_wait" /\ UNCHANGED g_mutex
              ELSE mpc' = "sleep" /\ g_mutex' = "free"
       ELSE mpc' = "sleep" /\ g_mutex' = "free"
    /\ UNCHANGED <<queryVars, cbVars, auxVars, tuneVars, streamVars, ctxVars,
                   startVars, memory_limit, current_usage, peak_usage,
                   pressure_callback, monitoring_active, pressure_threshold,
                   m_current, m_peak, m_limit, cpc, polled, cb_args,
                   threadOverwritten>>

\* the lock_guard on ctx->mutex of ev_memory_cleanup or ev_get_memory_usage,
\* called from the callback
LCallbackLock ==
    /\ mpc = "cb_wait"
    /\ CtxMutexFree
    /\ ctx_mutex' = "monitor"
    /\ mpc' = "cb_in"
    /\ UNCHANGED <<auxVars, streamVars, startVars, ctx, sess, tpc, api_op,
                   api_i, failSeen, queryVars, cbVars, tuneVars, memory_limit,
                   current_usage, peak_usage, pressure_callback,
                   monitoring_active, pressure_threshold, g_mutex, m_current,
                   m_peak, m_limit, cpc, polled, cb_args, threadOverwritten>>

\* that call, the callback and the wrapper return; the monitor's lock_guard
\* goes out of scope
LCallbackReturn ==
    /\ mpc = "cb_in"
    /\ ctx_mutex' = "free"
    /\ g_mutex' = "free"
    /\ mpc' = "sleep"
    /\ UNCHANGED <<auxVars, streamVars, startVars, ctx, sess, tpc, api_op,
                   api_i, failSeen, queryVars, cbVars, tuneVars, memory_limit,
                   current_usage, peak_usage, pressure_callback,
                   monitoring_active, pressure_threshold, m_current,
                   m_peak, m_limit, cpc, polled, cb_args, threadOverwritten>>

\* entry of ev_set_memory_limit or ev_set_memory_pressure_callback
LCall ==
    /\ tpc[ApiThread] = "idle"
    /\ \E op \in {"set_limit", "set_callback"} : api_op' = op
    /\ tpc' = [tpc EXCEPT ![ApiThread] = "wait"]
    /\ UNCHANGED <<auxVars, guardVars, streamVars, startVars, ctx_mutex, ctx,
                   sess, api_i, failSeen>>

\* under ctx->mutex: the store into the context, then the call of
\* memory_guard_set_limit or memory_guard_set_callback, which waits for the
\* guard mutex
LStore ==
    /\ tpc[ApiThread] = "locked"
    /\ IF api_op = "set_limit"
       THEN \E l \in 0..MaxLimit : ctx' = [ctx EXCEPT !.memory_limit = l]
       ELSE \E cb \in {"none", "cb"} : ctx' = [ctx EXCEPT !.memory_callback = cb]
    /\ tpc' = [tpc EXCEPT ![ApiThread] = "gwait"]
    /\ UNCHANGED <<auxVars, guardVars, streamVars, startVars, ctx_mutex,
                   sess, api_op, api_i, failSeen>>

\* the guard call has the guard mutex and runs: memory_guard_set_limit to
\* its return or to its join, memory_guard_set_callback to its return
LGuardEnter ==
    /\ tpc[ApiThread] = "gwait"
    /\ g_mutex = "free"
    /\ cpc = "idle"
    /\ IF api_op = "set_limit"
       THEN memory_guard_set_limit(ctx.memory_limit)
       ELSE /\ pressure_callback' =
                  IF ctx.memory_callback # "none" THEN Wrapper ELSE "none"
            /\ callback_user_data' =
                  IF ctx.memory_callback # "none" THEN "ctx" ELSE "null"
            /\ UNCHANGED <<queryVars, tuneVars, c_user_data, cb_called,
                           memory_limit, current_usage, peak_usage,
                           monitoring_active, pressure_threshold, g_mutex,
                           mpc, m_current, m_peak, m_limit, cpc, polled,
                           cb_args, threadOverwritten>>
    /\ tpc' = [tpc EXCEPT ![ApiThread] = "gin"]
    /\ UNCHANGED <<auxVars, streamVars, startVars, ctx_mutex, ctx, sess,
                   api_op, api_i, failSeen>>

\* the guard call has returned: return EV_SUCCESS, ctx->mutex released
LReturn ==
    /\ tpc[ApiThread] = "gin"
    /\ cpc = "idle"
    /\ ApiRelease
    /\ UNCHANGED <<auxVars, guardVars, streamVars, startVars, ctx, sess,
                   failSeen>>

LockInit ==
    /\ StreamAtRest
    /\ CtxAtRest
    /\ StartAtRest
    /\ GuardAtRest
    /\ AuxAtRest

LockNext ==
    \/ MPoll
    \/ MPeakLoad
    \/ MCas
    \/ MCheck
    \/ MLock
    \/ MWake
    \/ LDispatch
    \/ LCallbackLock
    \/ LCallbackReturn
    \/ LCall
    \/ Acquire(ApiThread)
    \/ LStore
    \/ LGuardEnter
    \/ GJoin
    \/ LReturn

LockSpec == LockInit /\ [][LockNext]_vars


\* ===================================================================
\* Two threads calling memory_guard_set_limit, memory_guard_start,
\* memory_guard_stop and memory_guard_shutdown at the same time.
\* start_monitoring and stop_monitoring are split at their atomic loads
\* and stores, at the construction of the std::thread (which starts the
\* new thread) and at its move-assignment to monitor_thread.  Of a monitor
\* thread only its loop test is kept: it leaves when it reads
\* monitoring_active false.  Move-assigning to a joinable std::thread
\* calls std::terminate, after which nothing runs.
\* ===================================================================
RaceOps == {"set_limit", "start", "stop", "shutdown"}

\* what no step of these calls touches
raceRest == <<streamVars, ctxVars, startVars, notRaceVars, queryVars, tuneVars,
              c_user_data, cb_called, pressure_threshold, mpc, m_current,
              m_peak, m_limit, cpc, polled, cb_args>>

Running(c) == ~threadOverwritten /\ rpc[c] # "idle"

RGo(c, p) == rpc' = [rpc EXCEPT ![c] = p]

\* the return of a call
RDone(c) ==
    /\ rpc' = [rpc EXCEPT ![c] = "idle"]
    /\ rop' = [rop EXCEPT ![c] = "none"]

\* after start_monitoring: memory_guard_set_limit still has to release the
\* guard mutex, memory_guard_start returns
RAfterStart(c) ==
    IF rop[c] = "set_limit" THEN RGo(c, "sl_unlock") /\ UNCHANGED rop
    ELSE RDone(c)

\* after stop_monitoring
RAfterStop(c) ==
    /\ RGo(c, CASE rop[c] = "set_limit" -> "sl_unlock"
                [] rop[c] = "stop" -> "tail"
                [] OTHER -> "reset")
    /\ UNCHANGED rop

\* entry of one of the calls
RCall(c, ops) ==
    /\ ~threadOverwritten
    /\ rpc[c] = "idle"
    /\ \E op \in ops :
         /\ rop' = [rop EXCEPT ![c] = op]
         /\ RGo(c, CASE op = "set_limit" -> "sl_lock"
                     [] op = "start" -> "st_load"
                     [] OTHER -> "sp_load")
    /\ UNCHANGED <<raceRest, handle, temp, memory_limit, monitoring_active,
                   g_mutex, threadOverwritten, pressure_callback,
                   callback_user_data, peak_usage, current_usage>>

\* memory_guard_set_limit(l): the lock_guard and the store of the limit
RLimitLock(c) ==
    /\ Running(c)
    /\ rpc[c] = "sl_lock"
    /\ g_mutex = "free"
    /\ g_mutex' = c
    /\ \E l \in 0..MaxLimit :
         /\ memory_limit' = l
         /\ RGo(c, IF l > 0 THEN "st_load" ELSE "sp_load")
    /\ UNCHANGED <<raceRest, rop, handle, temp, monitoring_active,
                   threadOverwritten, pressure_callback, callback_user_data,
                   peak_usage, current_usage>>

\* its return: the lock_guard goes out of scope
RLimitUnlock(c) ==
    /\ Running(c)
    /\ rpc[c] = "sl_unlock"
    /\ g_mutex' = "free"
    /\ RDone(c)
    /\ UNCHANGED <<raceRest, handle, temp, memory_limit, monitoring_active,
                   threadOverwritten, pressure_callback, callback_user_data,
                   peak_usage, current_usage>>

\* start_monitoring, one step of it: the load of monitoring_active; the
\* store of true; std::thread(memory_monitor_loop); monitor_thread = ...
start_monitoring(c) ==
    /\ Running(c)
    /\ CASE rpc[c] = "st_load" ->
              /\ IF monitoring_active
                 THEN RAfterStart(c)
                 ELSE RGo(c, "st_store") /\ UNCHANGED rop
              /\ UNCHANGED <<monitoring_active, temp, handle, threadOverwritten>>
         [] rpc[c] = "st_store" ->
              /\ monitoring_active' = TRUE
              /\ RGo(c, "st_spawn")
              /\ UNCHANGED <<rop, temp, handle, threadOverwritten>>
         [] rpc[c] = "st_spawn" ->
              /\ temp' = [temp EXCEPT ![c] = "running"]
              /\ RGo(c, "st_assign")
              /\ UNCHANGED <<rop, monitoring_active, handle, threadOverwritten>>
         [] rpc[c] = "st_assign" ->
              /\ IF handle # "none"
                 THEN /\ threadOverwritten' = TRUE
                      /\ UNCHANGED <<handle, temp, rpc, rop>>
                 ELSE /\ handle' = temp[c]
                      /\ temp' = [temp EXCEPT ![c] = "none"]
                      /\ RAfterStart(c)
                      /\ UNCHANGED threadOverwritten
              /\ UNCHANGED monitoring_active
         [] OTHER -> FALSE
    /\ UNCHANGED <<raceRest, memory_limit, g_mutex, pressure_callback,
                   callback_user_data, peak_usage, current_usage>>

\* stop_monitoring, one step of it: the load of monitoring_active; the
\* store of false; joinable(); join(), which returns once the thread has
\* left its loop
stop_monitoring(c) ==
    /\ Running(c)
    /\ CASE rpc[c] = "sp_load" ->
              /\ IF ~monitoring_active
                 THEN RAfterStop(c)
                 ELSE RGo(c, "sp_store") /\ UNCHANGED rop
              /\ UNCHANGED <<monitoring_active, handle>>
         [] rpc[c] = "sp_store" ->
              /\ monitoring_active' = FALSE
              /\ RGo(c, "sp_joinable")
              /\ UNCHANGED <<rop, handle>>
         [] rpc[c] = "sp_joinable" ->
              /\ IF handle # "none"
                 THEN RGo(c, "sp_join") /\ UNCHANGED rop
                 ELSE RAfterStop(c)
              /\ UNCHANGED <<monitoring_active, handle>>
         [] rpc[c] = "sp_join" ->
              /\ handle \in {"exited", "none"}
              /\ handle' = "none"
              /\ RAfterStop(c)
              /\ UNCHANGED monitoring_active
         [] OTHER -> FALSE
    /\ UNCHANGED <<raceRest, temp, memory_limit, g_mutex, threadOverwritten,
                   pressure_callback, callback_user_data, peak_usage,
                   current_usage>>

\* memory_guard_reset_stats() inside memory_guard_shutdown
RReset(c) ==
    /\ Running(c)
    /\ rpc[c] = "reset"
    /\ g_mutex = "free"
    /\ peak_usage' = 0
    /\ current_usage' = 0
    /\ RGo(c, "tail")
    /\ UNCHANGED <<raceRest, rop, handle, temp, memory_limit,
                   monitoring_active, g_mutex, threadOverwritten,
                   pressure_callback, callback_user_data>>

\* the locked tail of memory_guard_stop and of memory_guard_shutdown, which
\* also stores limit 0, and the return
RTail(c) ==
    /\ Running(c)
    /\ rpc[c] = "tail"
    /\ g_mutex = "free"
    /\ memory_limit' = IF rop[c] = "shutdown" THEN 0 ELSE memory_limit
    /\ pressure_callback' = "none"
    /\ callback_user_data' = "null"
    /\ RDone(c)
    /\ UNCHANGED <<raceRest, handle, temp, monitoring_active, g_mutex,
                   threadOverwritten, peak_usage, current_usage>>

\* while (monitoring_active.load()) is false for a monitor thread: the one
\* the handle refers to, or one not assigned yet
RLoopExit ==
    /\ ~threadOverwritten
    /\ ~monitoring_active
    /\ \/ /\ handle = "running"
          /\ handle' = "exited"
          /\ UNCHANGED temp
       \/ \E c \in Callers :
            /\ temp[c] = "running"
            /\ temp' = [temp EXCEPT ![c] = "exited"]
            /\ UNCHANGED handle
    /\ UNCHANGED <<raceRest, rpc, rop, memory_limit, monitoring_active,
                   g_mutex, threadOverwritten, pressure_callback,
                   callback_user_data, peak_usage, current_usage>>

RaceInit ==
    /\ StreamAtRest
    /\ CtxAtRest
    /\ StartAtRest
    /\ GuardAtRest
    /\ AuxAtRest

RaceNext ==
    \/ \E c \in Callers : RCall(c, RaceOps)
    \/ \E c \in Callers : RLimitLock(c)
    \/ \E c \in Callers : RLimitUnlock(c)
    \/ \E c \in Callers : start_monitoring(c)
    \/ \E c \in Callers : stop_monitoring(c)
    \/ \E c \in Callers : RReset(c)
    \/ \E c \in Callers : RTail(c)
    \/ RLoopExit

RaceSpec == RaceInit /\ [][RaceNext]_vars

\* monitor threads inside memory_monitor_loop
RunningLoops ==
    (IF handle = "running" THEN 1 ELSE 0)
    + Cardinality({c \in Callers : temp[c] = "running"})


\* ===================================================================
\* The user's callback of one ev_context: ev_set_memory_pressure_callback
\* stores ctx->memory_callback and ctx->memory_callback_data under
\* ctx->mutex and registers the wrapper with the guard; the monitor thread
\* runs the wrapper under the guard mutex, and the wrapper reads the two
\* fields of the context without ctx->mutex.
\* ===================================================================
\* entry of ev_set_memory_pressure_callback(ctx, callback, user_data)
PCall ==
    /\ tpc[ApiThread] = "idle"
    /\ \E arg \in CallbackArgs : u_arg' = arg
    /\ tpc' = [tpc EXCEPT ![ApiThread] = "wait"]
    /\ api_op' = "set_callback"
    /\ UNCHANGED <<streamVars, startVars, guardVars, notPairVars, ctx_mutex,
                   ctx, sess, api_i, failSeen, ucb, udata, w_cb, u_called>>

\* ctx->memory_callback = callback
PStoreCallback ==
    /\ tpc[ApiThread] = "locked"
    /\ ucb' = u_arg[1]
    /\ tpc' = [tpc EXCEPT ![ApiThread] = "data"]
    /\ UNCHANGED <<streamVars, startVars, guardVars, notPairVars, ctx_mutex,
                   ctx, sess, api_op, api_i, failSeen, udata, u_arg, w_cb,
                   u_called>>

\* ctx->memory_callback_data = user_data
PStoreData ==
    /\ tpc[ApiThread] = "data"
    /\ udata' = u_arg[2]
    /\ tpc' = [tpc EXCEPT ![ApiThread] = "gwait"]
    /\ UNCHANGED <<streamVars, startVars, guardVars, notPairVars, ctx_mutex,
                   ctx, sess, api_op, api_i, failSeen, ucb, u_arg, w_cb,
                   u_called>>

\* memory_guard_set_callback(wrapper, ctx) or (nullptr, nullptr), and the
\* return
PGuardSet ==
    /\ tpc[ApiThread] = "gwait"
    /\ g_mutex = "free"
    /\ cpc = "idle"
    /\ pressure_callback' = IF u_arg[1] # "none" THEN Wrapper ELSE "none"
    /\ callback_user_data' = IF u_arg[1] # "none" THEN "ctx" ELSE "null"
    /\ u_arg' = <<>>
    /\ ApiRelease
    /\ UNCHANGED <<streamVars, startVars, notPairVars, ctx, sess, failSeen,
                   ucb, udata, w_cb, u_called, queryVars, tuneVars,
                   c_user_data, cb_called, memory_limit, current_usage,
                   peak_usage, monitoring_active, pressure_threshold, g_mutex,
                   mpc, m_current, m_peak, m_limit, cpc, polled, cb_args,
                   threadOverwritten>>

\* if (pressure_callback) pressure_callback(callback_user_data, ...): the
\* wrapper is entered, or the lock_guard's scope ends
PDispatch ==
    /\ mpc = "dispatch"
    /\ IF pressure_callback # "none"
       THEN mpc' = "w_load" /\ UNCHANGED g_mutex
       ELSE mpc' = "sleep" /\ g_mutex' = "free"
    /\ UNCHANGED <<queryVars, cbVars, auxVars, tuneVars, streamVars, ctxVars,
                   startVars, memory_limit, current_usage, peak_usage,
                   pressure_callback, monitoring_active, pressure_threshold,
                   m_current, m_peak, m_limit, cpc, polled, cb_args,
                   threadOverwritten>>

\* the wrapper: if (ctx->memory_callback)
PWrapperLoad ==
    /\ mpc = "w_load"
    /\ w_cb' = ucb
    /\ IF ucb # "none"
       THEN mpc' = "w_call" /\ UNCHANGED g_mutex
       ELSE mpc' = "sleep" /\ g_mutex' = "free"
    /\ UNCHANGED <<streamVars, startVars, ctxVars, notPairVars, ucb, udata,
                   u_arg, u_called, queryVars, cbVars, tuneVars, memory_limit,
                   current_usage, peak_usage, pressure_callback,
                   monitoring_active, pressure_threshold, m_current, m_peak,
                   m_limit, cpc, polled, cb_args, threadOverwritten>>

\* the wrapper: ctx->memory_callback(ctx->memory_callback_data, current,
\* limit); the wrapper returns and the lock_guard's scope ends
PWrapperCall ==
    /\ mpc = "w_call"
    /\ u_called' = <<w_cb, udata>>
    /\ w_cb' = "none"
    /\ mpc' = "sleep"
    /\ g_mutex' = "free"
    /\ UNCHANGED <<streamVars, startVars, ctxVars, notPairVars, ucb, udata,
                   u_arg, queryVars, cbVars, tuneVars, memory_limit,
                   current_usage, peak_usage, pressure_callback,
                   monitoring_active, pressure_threshold, m_current, m_peak,
                   m_limit, cpc, polled, cb_args, threadOverwritten>>

PairInit ==
    /\ StreamAtRest
    /\ CtxAtRest
    /\ StartAtRest
    /\ GuardAtRest
    /\ AuxAtRest

PairNext ==
    \/ MPoll
    \/ MPeakLoad
    \/ MCas
    \/ MCheck
    \/ MLock
    \/ MWake
    \/ PDispatch
    \/ PWrapperLoad
    \/ PWrapperCall
    \/ GSetLimit
    \/ GJoin
    \/ PCall
    \/ Acquire(ApiThread)
    \/ PStoreCallback
    \/ PStoreData
    \/ PGuardSet

PairSpec == PairInit /\ [][PairNext]_vars


\* ===================================================================
\* The life of ev_context objects beside the guard: ev_init,
\* ev_set_memory_limit, ev_set_memory_pressure_callback and ev_free, called
\* one after the other, and the monitor thread, whose wrapper casts
\* callback_user_data to the ev_context it was registered with and reads
\* its fields.
\* ===================================================================
\* ev_set_memory_pressure_callback(c, cb, data): the guard gets
\* (wrapper, c), or (nullptr, nullptr) when cb is null
EvSetCallback(c) ==
    /\ ctx_live[c]
    /\ cpc = "idle"
    /\ g_mutex = "free"
    /\ \E cb \in {"none", "cb"} :
         /\ pressure_callback' = IF cb # "none" THEN Wrapper ELSE "none"
         /\ callback_user_data' = IF cb # "none" THEN c ELSE "null"
    /\ UNCHANGED <<auxVars, streamVars, ctxVars, startVars, queryVars,
                   tuneVars, c_user_data, cb_called, memory_limit,
                   current_usage, peak_usage, monitoring_active,
                   pressure_threshold, g_mutex, mpc, m_current, m_peak,
                   m_limit, cpc, polled, cb_args, threadOverwritten>>

\* if (pressure_callback) pressure_callback(callback_user_data, ...): the
\* wrapper reads ctx->memory_callback of the context it was given
FDispatch ==
    /\ mpc = "dispatch"
    /\ deref' = IF pressure_callback # "none" /\ callback_user_data \in Contexts
                THEN <<callback_user_data, ctx_live[callback_user_data]>>
                ELSE deref
    /\ g_mutex' = "free"
    /\ mpc' = "sleep"
    /\ UNCHANGED <<streamVars, ctxVars, startVars, notDerefVars, queryVars,
                   cbVars, tuneVars, memory_limit, current_usage, peak_usage,
                   pressure_callback, monitoring_active, pressure_threshold,
                   m_current, m_peak, m_limit, cpc, polled, cb_args,
                   threadOverwritten>>

LifeInit ==
    /\ StreamAtRest
    /\ CtxAtRest
    /\ StartAtRest
    /\ GuardAtRest
    /\ AuxAtRest

LifeNext ==
    \/ MPoll
    \/ MPeakLoad
    \/ MCas
    \/ MCheck
    \/ MLock
    \/ MWake
    \/ FDispatch
    \/ GJoin
    \/ \E c \in Contexts : EvInit(c)
    \/ \E c \in Contexts : EvSetMemoryLimit(c)
    \/ \E c \in Contexts : EvSetCallback(c)
    \/ \E c \in Contexts : EvFree(c)

LifeSpec == LifeInit /\ [][LifeNext]_vars


\* the same two threads calling memory_guard_set_limit and
\* memory_guard_shutdown only
LimitRaceOps == {"set_limit", "shutdown"}

LimitRaceNext ==
    \/ \E c \in Callers : RCall(c, LimitRaceOps)
    \/ \E c \in Callers : RLimitLock(c)
    \/ \E c \in Callers : RLimitUnlock(c)
    \/ \E c \in Callers : start_monitoring(c)
    \/ \E c \in Callers : stop_monitoring(c)
    \/ \E c \in Callers : RReset(c)
    \/ \E c \in Callers : RTail(c)
    \/ RLoopExit

LimitRaceSpec == RaceInit /\ [][LimitRaceNext]_vars

\* no guard call in flight and the process alive
NoCallInFlight ==
    /\ \A c \in Callers : rpc[c] = "idle"
    /\ ~threadOverwritten


\* ===================================================================
\* ev_get_memory_usage of one context beside the guard and its monitor: a
\* caller sets limits and asks for the statistics.
\* ===================================================================
\* ev_get_memory_usage(ctx, &stats); probe is what the platform would
\* report during the call
ev_get_memory_usage(probe) ==
    LET current_bytes == get_current_usage(probe)
    IN  /\ stats' = <<[current_bytes |-> current_bytes,
                       peak_bytes |-> peak_memory_bytes,
                       limit_bytes |-> ctx.memory_limit]>>
        /\ peak_memory_bytes' = IF current_bytes > peak_memory_bytes
                                THEN current_bytes
                                ELSE peak_memory_bytes

UGet ==
    /\ CtxMutexFree
    /\ \E probe \in Samples : ev_get_memory_usage(probe)
    /\ earlier_peak' = IF stats = <<>> THEN 0
                       ELSE Max(earlier_peak, stats[1].peak_bytes)
    /\ UNCHANGED <<streamVars, ctxVars, startVars, guardVars, notUsageVars>>

UsageInit ==
    /\ StreamAtRest
    /\ CtxAtRest
    /\ StartAtRest
    /\ GuardAtRest
    /\ AuxAtRest

UsageNext ==
    \/ MPoll
    \/ MPeakLoad
    \/ MCas
    \/ MCheck
    \/ MLock
    \/ MDispatch
    \/ MWake
    \/ GSetLimit
    \/ GJoin
    \/ UGet

UsageSpec == UsageInit /\ [][UsageNext]_vars


\* ===================================================================
\* ev_free, ev_image_free and ev_whisper_free, each split at the
\* construction of its lock_guard on ctx->mutex, the release of the engine
\* objects, delete ctx, and the destructor of the lock_guard at the end of
\* the function's scope, which unlocks ctx->mutex.
\* ===================================================================
freeRest == <<streamVars, ctxVars, startVars, guardVars, notFreeVars>>

\* ev_init, ev_image_init or ev_whisper_init returns a new context
FCreate(k) ==
    /\ fpc[k] = "idle"
    /\ obj[k] # "live"
    /\ obj' = [obj EXCEPT ![k] = "live"]
    /\ obj_mutex' = [obj_mutex EXCEPT ![k] = "free"]
    /\ UNCHANGED <<freeRest, fpc, late_access>>

\* entry of the free function: std::lock_guard<std::mutex> lock(ctx->mutex)
FLock(k) ==
    /\ fpc[k] = "idle"
    /\ obj[k] = "live"
    /\ obj_mutex[k] = "free"
    /\ obj_mutex' = [obj_mutex EXCEPT ![k] = "held"]
    /\ fpc' = [fpc EXCEPT ![k] = "locked"]
    /\ UNCHANGED <<freeRest, obj, late_access>>

\* the engine objects are freed and the fields of the context are cleared
FRelease(k) ==
    /\ fpc[k] = "locked"
    /\ late_access' = [late_access EXCEPT ![k] = @ \/ obj[k] # "live"]
    /\ fpc' = [fpc EXCEPT ![k] = "released"]
    /\ UNCHANGED <<freeRest, obj, obj_mutex>>

\* delete ctx, with the lock_guard still in scope
FDelete(k) ==
    /\ fpc[k] = "released"
    /\ obj' = [obj EXCEPT ![k] = "destroyed"]
    /\ fpc' = [fpc EXCEPT ![k] = "deleted"]
    /\ UNCHANGED <<freeRest, obj_mutex, late_access>>

\* end of scope: ~lock_guard calls ctx->mutex.unlock(), and the function
\* returns
FUnlock(k) ==
    /\ fpc[k] = "deleted"
    /\ late_access' = [late_access EXCEPT ![k] = @ \/ obj[k] # "live"]
    /\ obj_mutex' = [obj_mutex EXCEPT ![k] = "free"]
    /\ fpc' = [fpc EXCEPT ![k] = "idle"]
    /\ UNCHANGED <<freeRest, obj>>

FreeInit ==
    /\ StreamAtRest
    /\ CtxAtRest
    /\ StartAtRest
    /\ GuardAtRest
    /\ AuxAtRest

FreeNext ==
    \/ \E k \in Kinds : FCreate(k)
    \/ \E k \in Kinds : FLock(k)
    \/ \E k \in Kinds : FRelease(k)
    \/ \E k \in Kinds : FDelete(k)
    \/ \E k \in Kinds : FUnlock(k)

FreeSpec == FreeInit /\ [][FreeNext]_vars

\* ------------------------------------------------------------ claims

\* C1: once a next() call has returned none, every later next() call returns
\* none with the status of that first none and no token is produced again.
C1_NextIdempotent ==
    firstNone # <<>> => (ret.tok = "none" /\ ret.err = firstNone[1])

\* C2: if cancel() is called before the first next(), that next() returns
\* none with EV_ERROR_STREAM_ENDED and the session performs no engine
\* operation (no cache clear, no decode, no sampling) and yields no token.
C2_CancelBeforeFirstNext ==
    cancelBeforeFirst =>
        /\ engineOps = 0
        /\ fragments = 0
        /\ (calls >= 1 /\ pc = "idle") =>
               ret = [tok |-> "none", err |-> EV_ERROR_STREAM_ENDED]

C2_Witness ==
    cancelBeforeFirst /\ calls = 1 /\ pc = "idle"

\* C3 (as stated): after cancel() has returned the session starts at most
\* one further decode call.
C3_OneDecodeAfterCancel ==
    decAfterCancel <= 1

\* C3 (amended): after cancel() has returned the session starts at most one
\* further decode call, except that a prompt evaluation already past the
\* entry checkpoint still decodes all its remaining chunks (and then neither
\* samples nor feeds back a token).
C3_DecodesAfterCancelBounded ==
    decAfterCancel <= (IF chunksLeftAtCancel > 0 THEN chunksLeftAtCancel ELSE 1)

C3_Witness ==
    /\ cancelled /\ decAfterCancel = 2 /\ pc = "idle" /\ calls = 1
    /\ ret = [tok |-> "none", err |-> EV_ERROR_STREAM_ENDED]

\* no EOS, no decode failure, no allocation failure, no cancellation so far
CleanRun ==
    ~cancelled /\ ~decodeFailed /\ ~allocFailed /\ ~eosSampled

\* C4: the number of generated tokens never exceeds max_tokens; in a run
\* without EOS, failure or cancellation the first max_tokens next() calls
\* each return a fragment and call max_tokens + 1 returns none with
\* EV_SUCCESS as a natural end.
C4_MaxTokens ==
    /\ prompt_evaluated => n_cur - n_prompt <= max_tokens
    /\ fragments <= max_tokens
    /\ (CleanRun /\ pc = "idle") =>
           /\ calls <= max_tokens => (fragments = calls /\ ~ended)
           /\ (1 <= calls /\ calls <= max_tokens) => ret.tok # "none"
           /\ calls = max_tokens + 1 =>
                  /\ fragments = max_tokens
                  /\ ret = [tok |-> "none", err |-> EV_SUCCESS]
                  /\ endCause = "natural"

C4_Witness ==
    /\ CleanRun /\ pc = "idle" /\ max_tokens >= 2
    /\ calls = max_tokens + 1 /\ fragments = max_tokens

\* C5: every decode failure ends the session in the error state at once,
\* and no token is produced at or after the failing call.
C5_DecodeFailureFatal ==
    decodeFailed =>
        /\ ended
        /\ endCause = "error"
        /\ endStatus = <<EV_ERROR_INFERENCE_FAILED>>
        /\ ~fragAfterFail

C7_TokenIndexCountsFragments ==
    pc = "idle" => TokenInfo.token_index = fragments

\* C8: with confidence_threshold = 0, get_token_info() reports confidence -1,
\* average confidence -1 and needs_handoff false.
C8_ZeroThreshold ==
    confidence_threshold = 0 =>
        /\ TokenInfo.confidence = NotComputed
        /\ TokenInfo.avg_confidence = NotComputed
        /\ ~TokenInfo.needs_cloud_handoff

C8_Witness ==
    confidence_threshold = 0 /\ fragments >= 2 /\ cancelled /\ pc = "idle"

\* C9: once needs_handoff is reported true it is reported true ever after.
C9_HandoffSticky ==
    [][TokenInfo.needs_cloud_handoff => TokenInfo.needs_cloud_handoff']_vars

C9_Witness ==
    /\ needs_handoff /\ pc = "idle" /\ confidence_count >= 4
    /\ confidence_sum >= confidence_threshold * confidence_count

\* C10: needs_handoff implies at least 3 measurements, and that at some
\* measurement k >= 3 the mean of the first k confidences was strictly
\* below the threshold.
C10_HandoffWarranted ==
    needs_handoff => (histCount >= 3 /\ lowMeanSeen)

\* the mean of the first two measurements was already below the threshold,
\* the flag came only with the third
C10_Witness ==
    /\ needs_handoff /\ histCount = 3
    /\ histSum - last_confidence < confidence_threshold * 2

\* the prompt of the last ev_generate_stream call was tokenized (an empty
\* token vector is a tokenizer failure) and has more than n_ctx - 4 tokens
TooLongCase ==
    /\ ~startIn.promptNull /\ startIn.allocOk
    /\ startIn.ntok >= 1
    /\ startIn.ntok > startIn.n_ctx - SafetyMargin

\* C11: ev_generate_stream fails with a status of its own, different from
\* that of an engine failure (EV_ERROR_INFERENCE_FAILED) and of an invalid
\* input (EV_ERROR_INVALID_PARAM), exactly when the prompt has more than
\* n_ctx - 4 tokens, and then returns no session.
C11_TooLongStatus ==
    lastStart \notin {NoStart, StartPending} =>
        /\ TooLongCase =>
               /\ ~lastStart.returned
               /\ lastStart.status \notin {EV_SUCCESS, EV_ERROR_INFERENCE_FAILED,
                                           EV_ERROR_INVALID_PARAM}
        /\ (~TooLongCase /\ ~startIn.promptNull /\ startIn.allocOk /\ startIn.samplerOk
               /\ startIn.ntok >= 1)
               => lastStart.returned

\* C12: at any moment at most one thread is inside an engine operation
\* (cache clear, prompt decode, sampling, token decode) on the context, and
\* it holds ctx->mutex: ev_stream_next of the two sessions, ev_generate,
\* ev_reset and ev_memory_cleanup never overlap, and a call that finds the
\* mutex held stays before its first engine operation until the release.
C12_GenerationMutuallyExclusive ==
    /\ \A t \in Threads : (InEngine(t) \/ tpc[t] = "locked") => ctx_mutex = t
    /\ \A t1 \in Threads, t2 \in Threads :
           (InEngine(t1) /\ InEngine(t2)) => t1 = t2

\* one session decodes a token while the other session's next() and an
\* ev_generate call wait for the mutex
C12_Witness ==
    /\ tpc["s1"] = "tdecode" /\ tpc["s2"] = "wait"
    /\ tpc[ApiThread] = "wait" /\ api_op = "generate"

\* the step in which a llama_decode failure ends session s
FailureStep(s) ==
    /\ tpc[s] \in {"pdecode", "tdecode"}
    /\ ~sess[s].ended
    /\ sess'[s].ended

\* C13: a next() call that ends its session in the error state leaves the
\* context as it was (valid, same limit, same callback, same last error)
\* and releases its mutex, so that a session started afterwards on the
\* context can evaluate its prompt and stream tokens.
C13_FailureAbortsOnlySession ==
    [][\A s \in Sessions :
          FailureStep(s) => (ctx' = ctx /\ ev_is_valid' /\ ctx_mutex' = "free")]_vars

\* after a failure, on a context with a limit and a callback, a session
\* started later has evaluated its prompt and produced a token
C13_Witness ==
    /\ failSeen
    /\ ctx.memory_limit = 1 /\ ctx.memory_callback = "cb"
    /\ \E s \in Sessions :
         /\ sess[s].afterFail /\ sess[s].prompt_evaluated /\ sess[s].gen >= 1
         /\ \E s2 \in Sessions \ {s} : sess[s2].live /\ sess[s2].ended

\* C14: has_next() returns true exactly when the session has neither ended
\* nor had cancel requested; once it has returned false it never returns
\* true again, and every next() call made after that returns none.
C14_HasNext ==
    [][/\ ev_stream_has_next <=> (~ended /\ ~cancelled)
       /\ ev_stream_has_next' <=> (~ended' /\ ~cancelled')
       /\ hasNextFalse => ~ev_stream_has_next'
       /\ (hasNextFalse /\ pc # "idle" /\ pc' = "idle") => ret'.tok = "none"]_vars

\* has_next() has returned false for a session that had streamed a fragment
\* and was cancelled but not yet ended, and the next() call made after it
\* is at its entry checkpoint
C14_Witness ==
    /\ hasNextFalse /\ fragments >= 1 /\ cancelled /\ ~ended
    /\ pc = "entry" /\ calls = fragments + 1

\* some step of the monitor thread is possible
MonitorCanStep ==
    ENABLED (MPoll \/ MPeakLoad \/ MCas \/ MCheck \/ MLock \/ MDispatch \/ MWake)

\* C15: between two reset_stats() calls peak_usage never decreases, under
\* any interleaving of monitor polls with init, cleanup, set_limit and
\* set_callback: every step other than reset_stats leaves it at least as
\* large as it was.
C15_PeakMonotone ==
    [][GResetStats \/ peak_usage' >= peak_usage]_vars

\* C16: set_limit(0) always completes: while it waits for the monitor
\* thread in join, the monitor can always take a step towards leaving its
\* loop (or has left it), wherever the monitor was when the call began.
C16_SetLimitZeroCompletes ==
    cpc = "join" => (mpc = "exited" \/ MonitorCanStep)

\* C17: after any sequence of set_limit calls, each returned before the
\* next, the monitor thread runs iff the last argument (the stored limit)
\* is > 0 and no thread handle was ever overwritten; a set_limit(>0) made
\* while the monitor runs changes the stored limit and nothing else.
C17_SetLimitIdempotent ==
    [][/\ cpc' = "idle" =>
             /\ MonitorRunning' <=> memory_limit' > 0
             /\ monitoring_active' <=> memory_limit' > 0
             /\ ~threadOverwritten'
       /\ (cpc = "idle" /\ MonitorRunning /\ memory_limit' > 0
              /\ memory_limit' # memory_limit) =>
             /\ monitoring_active'
             /\ UNCHANGED <<mpc, m_current, m_peak, m_limit, cpc, g_mutex,
                            current_usage, peak_usage, pressure_callback>>]_vars

\* the monitor, having read the limit 1, waits for the guard mutex while a
\* set_limit(2) is made and returns; it then dispatches, still running
C17_Witness ==
    /\ cpc = "idle" /\ mpc = "dispatch"
    /\ m_limit = 1 /\ memory_limit = 2
    /\ monitoring_active /\ ~threadOverwritten

\* C18: with monitoring inactive get_current_usage() returns the probe made
\* during the call; with monitoring active it returns the value stored by
\* the most recent poll.
C18_CurrentUsage ==
    cpc = "idle" =>
        \A p \in Samples :
            /\ ~monitoring_active => get_current_usage(p) = p
            /\ (monitoring_active /\ polled # <<>>) =>
                   get_current_usage(p) = polled[1]

\* C19: with monitoring inactive get_peak_usage() reflects a probe made
\* during the call: it is never below the usage probed, so never zero
\* while the process uses memory.
C19_PeakProbe ==
    (cpc = "idle" /\ ~monitoring_active) =>
        \A p \in Samples : get_peak_usage(p) >= p

\* C20: a monitor poll invokes the registered callback, once and with the
\* poll's (current, limit), exactly if limit > 0 and current / limit >=
\* threshold, the predicate of is_under_pressure(); otherwise, or with no
\* callback registered, it invokes nothing.
C20_CallbackOnPressure ==
    [][(mpc \in {"limit", "dispatch"} /\ mpc' = "sleep") =>
          cb_args' = IF pressure_callback # "none"
                        /\ PressurePredicate(m_current', m_limit')
                     THEN <<m_current', m_limit'>>
                     ELSE <<>>]_vars

\* ---------------------------------------------------------------------
\* C21  The monitor calls the callback only with a (callback, user_data)
\* pair that one memory_guard_set_callback call registered together, and the
\* pair it calls is the one stored at that moment: once a replacing or
\* clearing set_callback has returned the earlier pair is not called again.
\* Between two calls the stored pair is always such a registered pair.
CallbackCalled ==
    mpc = "dispatch" /\ mpc' = "sleep" /\ cb_called' # <<>>

C21_CallbackPairAtomic ==
    [][/\ CallbackCalled =>
            /\ cb_called' \in CallbackArgs
            /\ cb_called' = <<pressure_callback, callback_user_data>>
            /\ cpc # "setcb"
       /\ cpc' # "setcb" =>
            <<pressure_callback', callback_user_data'>> \in CallbackArgs]_vars

\* the monitor waits for the guard mutex while a replacing set_callback has
\* stored the new function but not yet its user_data
C21_Witness ==
    /\ mpc = "lock"
    /\ cpc = "setcb"
    /\ pressure_callback = "fn2"
    /\ callback_user_data = "d1"

\* ---------------------------------------------------------------------
\* C22  After any sequence of set_threshold and set_check_interval calls the
\* stored interval is within [100, 60000] ms and the stored threshold is
\* within [0, 1]; the latest call stored its argument unchanged if that was
\* in range and the nearest bound if it was not.
Nearest(v, lo, hi) == IF v < lo THEN lo ELSE IF v > hi THEN hi ELSE v

C22_SettingsClamped ==
    /\ check_interval \in MinInterval..MaxInterval
    /\ ~threshold_nan
    /\ pressure_threshold \in 0..TScale
    /\ (set_arg # <<>> /\ set_arg[1] = "interval") =>
           check_interval = Nearest(set_arg[2].v, MinInterval, MaxInterval)
    /\ (set_arg # <<>> /\ set_arg[1] = "threshold" /\ ~set_arg[2].nan) =>
           pressure_threshold = Nearest(set_arg[2].v, 0, TScale)

\* the same for every call whose argument is a number
C22_NumbersClamped ==
    /\ check_interval \in MinInterval..MaxInterval
    /\ ~threshold_nan => pressure_threshold \in 0..TScale
    /\ threshold_nan => (set_arg # <<>> => set_arg[1] = "interval" \/ set_arg[2].nan)
    /\ (set_arg # <<>> /\ set_arg[1] = "interval") =>
           check_interval = Nearest(set_arg[2].v, MinInterval, MaxInterval)
    /\ (set_arg # <<>> /\ set_arg[1] = "threshold" /\ ~set_arg[2].nan) =>
           /\ ~threshold_nan
           /\ pressure_threshold = Nearest(set_arg[2].v, 0, TScale)

\* ---------------------------------------------------------------------
\* C23  When memory_guard_shutdown returns, the monitor thread is stopped
\* and joined, the limit is 0, the cached peak is 0 and no callback is
\* registered, whatever the guard's state was at the call; a shutdown of a
\* guard that is already torn down changes none of these.
TornDown ==
    /\ ~monitoring_active
    /\ mpc = "none"
    /\ memory_limit = 0
    /\ peak_usage = 0
    /\ pressure_callback = "none"
    /\ callback_user_data = "null"

ShutdownPcs == {"sd_join", "sd_reset", "sd_clear"}

ShutdownStep == cpc' \in ShutdownPcs \/ (cpc \in ShutdownPcs /\ cpc' = "idle")

C23_ShutdownTearsDown ==
    [][/\ (cpc = "sd_clear" /\ cpc' = "idle") => TornDown'
       /\ (TornDown /\ ShutdownStep) =>
              /\ TornDown'
              /\ UNCHANGED <<g_mutex, pressure_threshold, tuneVars>>]_vars

\* shutdown of a guard with a positive limit whose monitor had called the
\* registered callback: the monitor is joined, the statistics are reset and
\* the clearing tail is about to run
C23_Witness ==
    /\ cpc = "sd_clear"
    /\ mpc = "none"
    /\ memory_limit > 0
    /\ pressure_callback = "fn1"
    /\ cb_called = <<"fn1", "d1">>

\* ---------------------------------------------------------------------
\* C24  Between calls, whenever some existing ev_context has a positive
\* memory_limit (from ev_init or ev_set_memory_limit) the monitor thread is
\* running and the guard's limit is positive, whatever other contexts were
\* created, given a limit (0 included) or freed in the meantime.
LimitBearing == \E c \in Contexts : ctx_live[c] /\ ctx_limit[c] > 0

C24_MonitorCoversContexts ==
    (cpc = "idle" /\ LimitBearing) =>
        (monitoring_active /\ MonitorRunning /\ memory_limit > 0)

\* ---------------------------------------------------------------------
\* C25  llama_backend_init and llama_backend_free are called in strict
\* alternation starting with init: init only when the count goes 0 -> 1,
\* free only when it goes 1 -> 0.  The count is never negative, and a
\* release with no outstanding acquire calls nothing and leaves the count 0.
C25_BackendFollowsCount ==
    [][/\ ~misordered' /\ g_backend_refcount' >= 0
       /\ (backend_up' /\ ~backend_up) => g_backend_refcount = 0
       /\ (~backend_up' /\ backend_up) => g_backend_refcount = 0
       /\ g_backend_mutex' = "free" => (backend_up' <=> g_backend_refcount' > 0)
       /\ (\E t \in BackendThreads :
              bpc[t] = "rel_test" /\ g_backend_refcount = 0) =>
              (g_backend_refcount' = 0 /\ UNCHANGED backend_up)]_vars

\* a release, holding the mutex, finds the count at 1 with the backend up:
\* it is the one that takes the count to 0 and frees the backend
C25_Witness ==
    /\ backend_up
    /\ g_backend_refcount = 1
    /\ bpc["t1"] = "rel_test"
    /\ bpc["t2"] = "idle"

\* ---------------------------------------------------------------------
\* C26  Both confidence values that get_token_info reports, the last and
\* the average, are the sentinel -1 or lie in [0, 1], for every logit vector
\* and vocabulary size; the last one is 0 for a uniform logit vector and 1
\* for a one-hot spike.
InUnitInterval(x) == ~x.nan /\ 0 <= x.v /\ x.v <= ConfUnit

C26_ConfidenceInUnitInterval ==
    /\ get_token_info.confidence = Sentinel
           \/ InUnitInterval(get_token_info.confidence)
    /\ get_token_info.avg_confidence = Sentinel
           \/ InUnitInterval(get_token_info.avg_confidence)
    /\ (conf_count > 0 /\ n_top = n_vocab) =>
           get_token_info.confidence = Float(0)
    /\ (conf_count > 0 /\ n_top = 1) =>
           get_token_info.confidence = Float(ConfUnit)

\* the same for every vocabulary of more than one token
C26_UnitIntervalAboveOne ==
    n_vocab > 1 =>
        /\ get_token_info.confidence = Sentinel
               \/ InUnitInterval(get_token_info.confidence)
        /\ get_token_info.avg_confidence = Sentinel
               \/ InUnitInterval(get_token_info.avg_confidence)
        /\ (conf_count > 0 /\ n_top = n_vocab) =>
               get_token_info.confidence = Float(0)
        /\ (conf_count > 0 /\ n_top = 1 /\ n_vocab > 1) =>
               get_token_info.confidence = Float(ConfUnit)

\* ---------------------------------------------------------------------
\* C27  A cancel that takes effect after the entry checkpoint of a next()
\* call and before that call samples (during prompt evaluation or the
\* max_tokens check) makes that call return none with the cancelled status;
\* the call samples no token and starts no feed-back decode.
PreSample == {"prompt", "chunk", "chunkrun", "maxcheck", "check2"}

NoneWith(err) == [tok |-> "none", err |-> err]

C27_CancelledCallReturnsCancelled ==
    [][(cancelled /\ pc \in PreSample) =>
           /\ pc' \in PreSample \cup {"idle"}
           /\ pc' = "idle" => ret' = NoneWith(EV_ERROR_STREAM_ENDED)]_vars

\* as the code has it: such a call never reaches sampling and returns none,
\* with the cancelled status from the second checkpoint, unless it ends at
\* an earlier exit: a failed prompt chunk (inference failed) or the
\* max_tokens test, which precedes the second checkpoint (success)
C27_CancelledCallNeverSamples ==
    [][(cancelled /\ pc \in PreSample) =>
           /\ pc' \in PreSample \cup {"idle"}
           /\ pc' = "idle" =>
                 /\ ended'
                 /\ ret' = NoneWith(IF pc = "check2" THEN EV_ERROR_STREAM_ENDED
                                    ELSE IF pc = "maxcheck" THEN MaxTokensStatus
                                    ELSE EV_ERROR_INFERENCE_FAILED)
           /\ (pc = "check2" \/ (pc = "maxcheck" /\ ~MaxTokensReached)) =>
                 pc' \in {"check2", "idle"}]_vars

\* the second call of a session was cancelled after its entry checkpoint
\* and stands at the second checkpoint with one fragment delivered
C27_Witness ==
    /\ cancelled
    /\ pc = "check2"
    /\ calls = 2
    /\ fragments = 1

\* ---------------------------------------------------------------------
\* C28  The chain built for any parameter set is a subsequence of
\* Penalties, TopK, TopP, Temperature, Grammar, FinalDraw: Penalties first,
\* FinalDraw last, TopK present iff top_k > 0, TopP iff top_p < 1.0,
\* Temperature iff temperature > 0, Grammar iff a non-empty grammar is given.
FixedOrder ==
    <<"Penalties", "TopK", "TopP", "Temperature", "Grammar", "FinalDraw">>

Has(chain, stage) == \E k \in 1..Len(chain) : chain[k] = stage

\* position of a stage in the fixed order
Rank(stage) == CHOOSE k \in 1..Len(FixedOrder) : FixedOrder[k] = stage

C28_SamplerOrder ==
    sampler # <<>> =>
        /\ \A k \in 1..Len(sampler) : Has(FixedOrder, sampler[k])
        /\ \A k \in 1..(Len(sampler) - 1) : Rank(sampler[k]) < Rank(sampler[k + 1])
        /\ sampler[1] = "Penalties"
        /\ sampler[Len(sampler)] = "FinalDraw"
        /\ Has(sampler, "TopK") <=> gen_params.top_k > 0
        /\ Has(sampler, "TopP") <=>
               (~gen_params.top_p.nan /\ gen_params.top_p.v < TScale)
        /\ Has(sampler, "Temperature") <=>
               (~gen_params.temperature.nan /\ gen_params.temperature.v > 0)
        /\ Has(sampler, "Grammar") <=> gen_params.grammar_str \notin {"null", ""}

\* greedy decoding with a grammar: top_k = 0, top_p = 1.0, temperature = 0
C28_Witness ==
    sampler = <<"Penalties", "Grammar", "FinalDraw">>

\* ---------------------------------------------------------------------
\* C29  Every engine operation on the context, the tokenization and the
\* context-size read of ev_generate_stream included, runs while the calling
\* thread holds ctx->mutex, so no two threads are inside engine operations
\* on the context at once.
InAnyEngineCall(t) == tpc[t] \in EnginePcs \cup StartEnginePcs

C29_EngineCallsUnderMutex ==
    /\ \A t \in Threads : InAnyEngineCall(t) => ctx_mutex = t
    /\ \A t, u \in Threads :
           (InAnyEngineCall(t) /\ InAnyEngineCall(u)) => t = u

\* ---------------------------------------------------------------------
\* C30  The monitor holds the guard mutex only from its lock to the end of
\* the callback dispatch (not while it sleeps or probes) and never the
\* context mutex; get_current_usage, get_peak_usage and is_under_pressure
\* can return in every state, whoever holds the guard mutex.
C30_QueriesNeverBlock ==
    /\ g_mutex = "monitor" <=> mpc = "dispatch"
    /\ ctx_mutex = "free"
    /\ ENABLED GQuery

\* a query has returned while the guard mutex was held, and the monitor is
\* inside the dispatch with the callback's lock
C30_Witness ==
    /\ q_while_locked
    /\ mpc = "dispatch"
    /\ g_mutex = "monitor"
    /\ pressure_callback # "none"


\* C31: whenever a session samples a token, the sequence cache holds that
\* session's prompt tokens followed by the tokens it has generated so far,
\* in order, whatever next() calls of other sessions and ev_reset,
\* ev_memory_cleanup and ev_generate calls came in between.
C31_SequenceCacheConsistent ==
    sampled # <<>> =>
        sampled[1].cache = Prefix(sampled[1].session, sampled[1].n_cur)


\* C32: no deadlock among the context mutex and the guard mutex: while the
\* pressure callback calls back into the context and another thread is
\* inside ev_set_memory_limit or ev_set_memory_pressure_callback, some
\* thread can always take its next step.
C32_NoDeadlock == ENABLED LockNext

\* the monitor holds the guard mutex and waits for ctx->mutex, whose holder
\* waits for the guard mutex
LockOrderCycle ==
    /\ mpc = "cb_wait" /\ g_mutex = "monitor"
    /\ tpc[ApiThread] = "gwait" /\ ctx_mutex = ApiThread

C32_NoLockOrderCycle == ~LockOrderCycle


\* C33: at most one monitor thread exists: under any interleaving of
\* concurrent set_limit, start, stop and shutdown calls the thread handle is
\* never overwritten while it refers to a thread, and two monitor loops
\* never run at the same time.
C33_SingleMonitor ==
    /\ ~threadOverwritten
    /\ RunningLoops <= 1


\* C34: the user's pressure callback is always called with the user_data it
\* was registered with through ev_set_memory_pressure_callback, also when
\* another thread replaces the pair while the monitor is dispatching.
C34_UserCallbackPairAtomic ==
    u_called # <<>> => u_called \in CallbackArgs


\* C35: once ev_free(ctx) has returned the guard holds no reference to ctx
\* and the monitor never dereferences it, whether or not a callback was
\* registered on it and whether or not its limit was positive.
C35_NoCallbackAfterFree ==
    /\ callback_user_data \in Contexts => ctx_live[callback_user_data]
    /\ deref # <<>> => deref[2]


\* C36: every next() call that returns none leaves the session ended, so
\* that has_next() is false afterwards, and every token the session has
\* consumed was delivered as a fragment, also when the allocation of the
\* fragment fails after the token was decoded.
C36_NoneIsTerminal ==
    /\ (pc = "idle" /\ ret.tok = "none") => (ended /\ ~ev_stream_has_next)
    /\ (pc = "idle" /\ prompt_evaluated) => n_cur - n_prompt = fragments

\* without a failed allocation both parts hold
C36_TerminalUnlessAllocFailed ==
    ~allocFailed => C36_NoneIsTerminal


\* C37: once every concurrent set_limit and shutdown call has returned, the
\* monitor thread is running if and only if the stored limit is > 0.
C37_MonitorFollowsLimit ==
    NoCallInFlight => (RunningLoops > 0 <=> memory_limit > 0)


\* C38: the llama backend is never freed while a context created by ev_init
\* is alive: freeing one of two contexts, or a failing ev_init of another,
\* leaves the backend up for the remaining one.
C38_BackendOutlivesContexts ==
    (\E c \in Contexts : ctx_live[c]) => backend_up


\* C39: every result of ev_get_memory_usage has peak_bytes >= current_bytes
\* of the same call and >= the peak_bytes of every earlier call on the
\* context, the first call included.
C39_StatsConsistent ==
    stats # <<>> =>
        /\ stats[1].peak_bytes >= stats[1].current_bytes
        /\ stats[1].peak_bytes >= earlier_peak

\* the second part alone: the returned peaks never decrease
C39_ReturnedPeakMonotone ==
    stats # <<>> => stats[1].peak_bytes >= earlier_peak


\* C40: in ev_free, ev_image_free and ev_whisper_free every access to the
\* context object, the release of its own mutex included, happens before
\* the object is destroyed.
C40_NoAccessAfterDestroy ==
    \A k \in Kinds : ~late_access[k]

\* up to delete ctx no access comes late
C40_AccessesBeforeDelete ==
    \A k \in Kinds : fpc[k] \in {"locked", "released"} => obj[k] = "live"

====
